---- MODULE Spec2Model ----
(***************************************************************************)
(* Model of the command handlers of psico.fitting and psico.selecting      *)
(* (pymol-psico).                                                          *)
(*                                                                         *)
(* The host (PyMOL) is modelled as a store of names (objects, alignment    *)
(* objects, named selections), a set of atoms and the temporary files and  *)
(* directories on disk; sels maps a named selection to its atoms and   *)
(* coords gives the coordinates of every atom in every state.  One         *)
(* command runs at a time: a Start action draws its arguments and the      *)
(* outcomes of the external calls, and the following actions are the steps *)
(* of the handler as the source executes them.                             *)
(***************************************************************************)
EXTENDS Integers, Sequences, FiniteSets, TLC

VARIABLES cmdName, pc, arg, loc, exc, names, files, mm, deleteLog, effects,
          sels, coords

vars == <<cmdName, pc, arg, loc, exc, names, files, mm, deleteLog, effects,
         sels, coords>>

(***************************************************************************)
(* Bounds                                                                  *)
(***************************************************************************)
MaxAlnLen == 2

MaxRows == 4

MaxMethods == 2

MaxStates == 2

MaxGuide == 3

MaxPattern == 2

MaxResv == 3

MaxIndex == 3

MaxChain == 5

MaxMinsize == 3

MaxK == 2

MaxResn == 5

MaxWindow == 5
MaxSsResv == 4

(***************************************************************************)
(* Host state: atoms, names                                                *)
(***************************************************************************)
Atoms ==
    { [model |-> "m1", index |-> 1, chain |-> "A", resi |-> 1],
      [model |-> "m1", index |-> 2, chain |-> "B", resi |-> 1],
      [model |-> "m2", index |-> 1, chain |-> "A", resi |-> 1] }

Selections == SUBSET Atoms

NoExc == [type |-> "none", msg |-> ""]

CmdException(m) == [type |-> "CmdException", msg |-> m]

PyError(t) == [type |-> t, msg |-> ""]

\* cmd.get_unused_name(prefix): prefix followed by the smallest number not in use
GetUnusedName(prefix, used) ==
    LET n == CHOOSE k \in 1..(Cardinality(used) + 1) :
                 /\ <<prefix, k>> \notin used
                 /\ \A j \in 1..(k - 1) : <<prefix, j>> \in used
    IN <<prefix, n>>

\* names that may be left in the host before a command starts
InitialNames == SUBSET {<<"_", 1>>, <<"_mobile", 1>>}

AlnObjectName == <<"aln", 0>>

(***************************************************************************)
(* MatchMaker                                                              *)
(***************************************************************************)
Matches == {"none", "in", "like", "align", "super", "aln", "bogus"}

\* "s1 in s2": atoms of s1 whose identifiers all match an atom of s2
OpIn(s1, s2) == {a \in s1 : \E b \in s2 : b.chain = a.chain /\ b.resi = a.resi}

\* "s1 like s2": atoms of s1 whose name and resi match an atom of s2
OpLike(s1, s2) == {a \in s1 : \E b \in s2 : b.resi = a.resi}

Columns == {c \in SUBSET Atoms : Cardinality(c) \in {1, 2}}

SeqsUpTo(S, n) == UNION {[1..k -> S] : k \in 0..n}

\* raw alignments: lists of columns, every atom in at most one column
RawAlignments ==
    {aln \in SeqsUpTo(Columns, MaxAlnLen) :
        \A i, j \in 1..Len(aln) : i # j => aln[i] \cap aln[j] = {}}

\* alignments cmd.align / cmd.super can produce for two selections
AlignResults(selm, selt) ==
    {aln \in RawAlignments :
        /\ Len(aln) >= 1
        /\ \A i \in 1..Len(aln) :
              \E m \in selm, t \in selt : m # t /\ aln[i] = {m, t}}

AlnAtoms(aln) == UNION {aln[i] : i \in 1..Len(aln)}

\* a column test that accepts any column with atoms of both selections
KeepColumn_NoGapTest(mobiles, targets) == mobiles # {} /\ targets # {}

\* from_alignment: len(mobiles) == 1 and len(targets) == 1
KeepColumn(mobiles, targets) ==
    Cardinality(mobiles) = 1 /\ Cardinality(targets) = 1

RECURSIVE FilterColumns(_, _, _, _)
\* the column loop of from_alignment
FilterColumns(aln, i, mobileidx, targetidx) ==
    IF i > Len(aln) THEN [m |-> <<>>, t |-> <<>>]
    ELSE LET rest    == FilterColumns(aln, i + 1, mobileidx, targetidx)
             mobiles == mobileidx \cap aln[i]
             targets == targetidx \cap aln[i]
         IN IF KeepColumn(mobiles, targets)
            THEN [m |-> <<CHOOSE a \in mobiles : TRUE>> \o rest.m,
                  t |-> <<CHOOSE a \in targets : TRUE>> \o rest.t]
            ELSE rest

SeqToSet(s) == {s[i] : i \in 1..Len(s)}

\* MatchMaker.check
Check(m) == Cardinality(m.mobile) = Cardinality(m.target)

\* MatchMaker.from_alignment; o is the object under construction
FromAlignment(o, mobile, target, aln) ==
    LET first == [o EXCEPT !.mobile = mobile \cap AlnAtoms(aln),
                           !.target = target \cap AlnAtoms(aln)]
    IN IF Check(first) THEN first
       ELSE LET sel   == FilterColumns(aln, 1, mobile, target)
                mname == GetUnusedName("_mobile", first.names)
                tname == GetUnusedName("_target", first.names)
                mobjs == {a.model : a \in SeqToSet(sel.m)}
                tobjs == {a.model : a \in SeqToSet(sel.t)}
            IN [first EXCEPT
                  !.mobile = SeqToSet(sel.m),
                  !.target = SeqToSet(sel.t),
                  !.mobileidxsel = sel.m,
                  !.targetidxsel = sel.t,
                  !.temporary = @ \o <<mname, tname>>,
                  !.names = @ \cup {mname, tname},
                  !.via = IF Cardinality(mobjs) = 1 /\ Cardinality(tobjs) = 1
                          THEN "select_list" ELSE "select"]

\* MatchMaker.align; alnres is what the alignment command produces
\* (ok = FALSE when the alignment command raises)
MMAlign(o, mobile, target, alnres) ==
    LET aln_obj == GetUnusedName("_", o.names)
        o1      == [o EXCEPT !.temporary = @ \o <<aln_obj>>]
    IN IF ~alnres.ok
       THEN [o1 EXCEPT !.exc = CmdException("alignment failed")]
       ELSE FromAlignment([o1 EXCEPT !.names = @ \cup {aln_obj}],
                          mobile, target, alnres.cols)

\* MatchMaker.__init__
MatchMakerInit(mobile, target, match, autodelete, alnres, used) ==
    LET o == [mobile |-> {}, target |-> {}, temporary |-> <<>>,
              autodelete |-> autodelete, names |-> used, exc |-> NoExc,
              mobileidxsel |-> <<>>, targetidxsel |-> <<>>, via |-> "expr",
              match |-> match]
    IN CASE match = "none" ->
              [o EXCEPT !.mobile = mobile, !.target = target]
         [] match = "in" ->
              [o EXCEPT !.mobile = OpIn(mobile, target),
                        !.target = OpIn(target, mobile)]
         [] match = "like" ->
              [o EXCEPT !.mobile = OpLike(mobile, target),
                        !.target = OpLike(target, mobile)]
         [] match \in {"align", "super"} ->
              MMAlign(o, mobile, target, alnres)
         [] match = "aln" /\ AlnObjectName \in used ->
              FromAlignment(o, mobile, target, alnres.cols)
         [] OTHER ->
              [o EXCEPT !.exc = CmdException("unkown match method")]

\* the alignment data __init__ reads for a match method
AlnChoices(mobile, target, match) ==
    CASE match \in {"align", "super"} ->
              {[ok |-> TRUE, cols |-> a] : a \in AlignResults(mobile, target)}
                 \cup {[ok |-> FALSE, cols |-> <<>>]}
      [] match = "aln" -> {[ok |-> TRUE, cols |-> a] : a \in RawAlignments}
      [] OTHER -> {[ok |-> TRUE, cols |-> <<>>]}

NoMM == [mobile |-> {}, target |-> {}, temporary |-> <<>>,
         autodelete |-> FALSE, names |-> {}, exc |-> NoExc,
         mobileidxsel |-> <<>>, targetidxsel |-> <<>>, via |-> "expr",
         match |-> "none"]

\* MatchMaker._cleanup: the names handed to cmd.delete
Cleanup(m) == IF ~m.autodelete THEN <<>> ELSE m.temporary

\* a __exit__ that forgets to switch autodelete off
ExitAutodelete_Keep(m) == m.autodelete

\* MatchMaker.__exit__: the flag left after leaving the with-block
ExitAutodelete(m) == FALSE

(***************************************************************************)
(* Initial state                                                           *)
(***************************************************************************)
\* the states of the multi-state object, and its atoms
States == 1..MaxStates

AtomIds == {1, 2, 3}

\* coordinates of the object before any command: state -> atom -> xyz
DefaultCoords ==
    [s \in States |-> [a \in AtomIds |-> <<2 * (s + a), 4 * a - 2 * s, 6 * s * a>>]]

\* everything but the coordinates
InitHost ==
    /\ cmdName = "idle"
    /\ pc = "idle"
    /\ arg = [none |-> TRUE]
    /\ loc = [none |-> TRUE]
    /\ exc = NoExc
    /\ names \in {n \cup {AlnObjectName} : n \in InitialNames}
    /\ files = {}
    /\ mm = NoMM
    /\ deleteLog = <<>>
    /\ effects = {}
    /\ sels = <<>>

Init == InitHost /\ coords = DefaultCoords

(***************************************************************************)
(* MatchMaker used through its API: construct, with-block, finalization    *)
(***************************************************************************)
MMConstruct ==
    /\ cmdName = "idle"
    /\ \E mobile \in Selections, target \in Selections, match \in Matches,
          autodelete \in BOOLEAN :
        \E alnres \in AlnChoices(mobile, target, match) :
          LET o == MatchMakerInit(mobile, target, match, autodelete, alnres, names)
          IN /\ cmdName' = "mm"
             /\ arg' = [mobile |-> mobile, target |-> target, match |-> match,
                        autodelete |-> autodelete, aln |-> alnres]
             /\ mm' = o
             /\ names' = o.names
             /\ exc' = o.exc
             /\ pc' = IF o.exc = NoExc THEN "constructed" ELSE "failed"
             /\ loc' = [entered |-> FALSE]
    /\ UNCHANGED <<sels, coords, files, deleteLog, effects>>

\* __enter__
MMEnter ==
    /\ cmdName = "mm" /\ pc = "constructed"
    /\ pc' = "entered"
    /\ loc' = [entered |-> TRUE]
    /\ UNCHANGED <<sels, coords, cmdName, arg, exc, names, files, mm, deleteLog, effects>>

\* __exit__
MMExit ==
    /\ cmdName = "mm" /\ pc = "entered"
    /\ deleteLog' = deleteLog \o Cleanup(mm)
    /\ names' = names \ SeqToSet(Cleanup(mm))
    /\ mm' = [mm EXCEPT !.autodelete = ExitAutodelete(mm)]
    /\ pc' = "exited"
    /\ UNCHANGED <<sels, coords, cmdName, arg, loc, exc, files, effects>>

\* __del__
MMDel ==
    /\ cmdName = "mm" /\ pc \in {"constructed", "failed", "exited"}
    /\ deleteLog' = deleteLog \o Cleanup(mm)
    /\ names' = names \ SeqToSet(Cleanup(mm))
    /\ pc' = "finalized"
    /\ UNCHANGED <<sels, coords, cmdName, arg, loc, exc, files, mm, effects>>

(***************************************************************************)
(* tmalign                                                                 *)
(***************************************************************************)
MobileFile == "mobile.pdb"

TargetFile == "target.pdb"

MatrixFile == "matrix.txt"

\* kinds of output lines: "rot" starts the rotation matrix block, "aln" is
\* the '(":" denotes' line, "num" a row of numbers, "txt" any other text
RowKinds == {"txt", "num"}

MatrixBlocks == {<<>>} \cup {<<"rot">> \o r : r \in SeqsUpTo(RowKinds, MaxRows)}

AlnBlocks == {<<>>} \cup {<<"aln">> \o r : r \in SeqsUpTo({"txt"}, 3)}

\* what save raises when it fails
SaveError == CmdException("save failed")

\* except OSError of tmalign
TmalignExecError(e) ==
    IF e.type = "OSError" THEN CmdException("Cannot execute") ELSE e

RECURSIVE ParseLines(_, _, _, _, _)
\* the line loop of tmalign: matrix and alignment count the collected entries
ParseLines(lines, i, rowcount, matrix, alignment) ==
    IF i > Len(lines)
    THEN [exc |-> NoExc, matrix |-> matrix, alignment |-> alignment]
    ELSE IF rowcount >= 1 /\ rowcount <= 4
    THEN IF rowcount >= 2
         THEN IF lines[i] = "num"
              THEN ParseLines(lines, i + 1, rowcount + 1, matrix + 4, alignment)
              ELSE [exc |-> PyError("ValueError"), matrix |-> matrix,
                    alignment |-> alignment]
         ELSE ParseLines(lines, i + 1, rowcount + 1, matrix, alignment)
    ELSE IF lines[i] = "rot"
    THEN ParseLines(lines, i + 1, 1, matrix, alignment)
    ELSE IF lines[i] = "aln"
    THEN IF i + 3 <= Len(lines)
         THEN ParseLines(lines, i + 4, rowcount, matrix, 3)
         ELSE [exc |-> PyError("StopIteration"), matrix |-> matrix,
               alignment |-> alignment]
    ELSE ParseLines(lines, i + 1, rowcount, matrix, alignment)

\* tmalign after the line loop: printing, assertion, transformation,
\* alignment object
TmalignPost(p, quiet, transform, object) ==
    IF ~quiet /\ p.alignment = 0
    THEN [exc |-> PyError("IndexError"), effects |-> {}]
    ELSE IF p.matrix # 3 * 4
    THEN [exc |-> PyError("AssertionError"), effects |-> {}]
    ELSE LET t == IF transform THEN {"transformed"} ELSE {}
         IN IF ~object THEN [exc |-> NoExc, effects |-> t]
            ELSE IF p.alignment = 0
            THEN [exc |-> PyError("IndexError"), effects |-> t]
            ELSE [exc |-> NoExc, effects |-> t \cup {"alignment_object"}]

TmalignStart ==
    /\ cmdName = "idle"
    /\ \E quiet \in BOOLEAN, transform \in BOOLEAN, object \in BOOLEAN :
          arg' = [quiet |-> quiet, transform |-> transform, object |-> object]
    /\ cmdName' = "tmalign"
    /\ pc' = "save_mobile"
    /\ loc' = [lines |-> <<>>, matlines |-> <<>>, ran |-> FALSE,
               execFailed |-> FALSE, created |-> {},
               parse |-> [exc |-> NoExc, matrix |-> 0, alignment |-> 0]]
    /\ UNCHANGED <<sels, coords, exc, names, files, mm, deleteLog, effects>>

\* save(mobile_filename, ...): may fail with or without leaving the file
TmalignSaveMobile ==
    /\ cmdName = "tmalign" /\ pc = "save_mobile"
    /\ \E ok \in BOOLEAN, written \in BOOLEAN :
          /\ ok => written
          /\ files' = IF written THEN files \cup {MobileFile} ELSE files
          /\ loc' = [loc EXCEPT !.created =
                        IF written THEN @ \cup {MobileFile} ELSE @]
          /\ exc' = IF ok THEN exc ELSE SaveError
          /\ pc' = IF ok THEN "save_target" ELSE "done"
    /\ UNCHANGED <<sels, coords, cmdName, arg, names, mm, deleteLog, effects>>

\* save(target_filename, ...)
TmalignSaveTarget ==
    /\ cmdName = "tmalign" /\ pc = "save_target"
    /\ \E ok \in BOOLEAN, written \in BOOLEAN :
          /\ ok => written
          /\ files' = IF written THEN files \cup {TargetFile} ELSE files
          /\ loc' = [loc EXCEPT !.created =
                        IF written THEN @ \cup {TargetFile} ELSE @]
          /\ exc' = IF ok THEN exc ELSE SaveError
          /\ pc' = IF ok THEN "run" ELSE "done"
    /\ UNCHANGED <<sels, coords, cmdName, arg, names, mm, deleteLog, effects>>

\* subprocess.Popen and readlines inside try/except OSError/finally
TmalignRun ==
    /\ cmdName = "tmalign" /\ pc = "run"
    /\ \/ /\ exc' = TmalignExecError(PyError("OSError"))
          /\ files' = files \ {MobileFile, TargetFile}
          /\ loc' = [loc EXCEPT !.execFailed = TRUE]
          /\ pc' = "done"
       \/ \E m \in MatrixBlocks, a \in AlnBlocks, newer \in BOOLEAN :
             /\ loc' = [loc EXCEPT
                          !.ran = TRUE,
                          !.lines = IF newer THEN a ELSE m \o a,
                          !.matlines = IF newer THEN m ELSE <<>>,
                          !.created = IF newer THEN @ \cup {MatrixFile} ELSE @]
             /\ files' = (files \ {MobileFile, TargetFile})
                            \cup (IF newer THEN {MatrixFile} ELSE {})
             /\ exc' = exc
             /\ pc' = "read_matrix"
    /\ UNCHANGED <<sels, coords, cmdName, arg, names, mm, deleteLog, effects>>

\* if os.path.exists(matrix_filename): read and remove it
TmalignReadMatrix ==
    /\ cmdName = "tmalign" /\ pc = "read_matrix"
    /\ IF MatrixFile \in files
       THEN /\ loc' = [loc EXCEPT !.lines = @ \o loc.matlines]
            /\ files' = files \ {MatrixFile}
       ELSE UNCHANGED <<loc, files>>
    /\ pc' = "parse"
    /\ UNCHANGED <<sels, coords, cmdName, arg, exc, names, mm, deleteLog, effects>>

TmalignParse ==
    /\ cmdName = "tmalign" /\ pc = "parse"
    /\ LET p == ParseLines(loc.lines, 1, 0, 0, 0)
       IN /\ loc' = [loc EXCEPT !.parse = p]
          /\ exc' = p.exc
          /\ pc' = IF p.exc = NoExc THEN "post" ELSE "done"
    /\ UNCHANGED <<sels, coords, cmdName, arg, names, files, mm, deleteLog, effects>>

TmalignFinish ==
    /\ cmdName = "tmalign" /\ pc = "post"
    /\ LET r == TmalignPost(loc.parse, arg.quiet, arg.transform, arg.object)
       IN /\ exc' = r.exc
          /\ effects' = effects \cup r.effects
    /\ pc' = "done"
    /\ UNCHANGED <<sels, coords, cmdName, arg, loc, names, files, mm, deleteLog>>

(***************************************************************************)
(* dyndom                                                                  *)
(***************************************************************************)
DyndomDir == "dyndom_tempdir"

\* the mobile, target and match arguments of a command together with the
\* alignment the host computes for them
MatchInputs ==
    {q \in Selections \X Selections \X Matches \X
           {[ok |-> b, cols |-> a] : b \in BOOLEAN, a \in RawAlignments} :
        q[4] \in AlnChoices(q[1], q[2], q[3])}

\* the MatchMaker a command builds from its arguments (autodelete default)
CommandMatchMakers(used) ==
    {MatchMakerInit(q[1], q[2], q[3], TRUE, q[4], used) : q \in MatchInputs}

\* cmd.get_chains
GetChains(sel) == {a.chain : a \in sel}

\* except OSError of dyndom
DyndomExecError(e) ==
    IF e.type = "OSError" THEN CmdException("Cannot execute") ELSE e

\* a finally block that only cleans up when nothing was raised
DyndomFinally_OnSuccess(fs, preserve, pending) ==
    IF ~preserve /\ pending = NoExc THEN fs \ {DyndomDir} ELSE fs

\* finally of dyndom: the files left on disk
DyndomFinally(fs, preserve, pending) ==
    IF ~preserve THEN fs \ {DyndomDir} ELSE fs

\* MatchMaker construction, chain checks and executable lookup
DyndomStart ==
    /\ cmdName = "idle"
    /\ cmdName' = "dyndom"
    /\ \E o \in CommandMatchMakers(names),
          preserve \in BOOLEAN, transform \in BOOLEAN, exe \in {"given", "found", "notfound"} :
          /\ arg' = [preserve |-> preserve, transform |-> transform, exe |-> exe]
          /\ mm' = o
          /\ names' = o.names
          /\ exc' = IF o.exc # NoExc THEN o.exc
                    ELSE IF Cardinality(GetChains(o.mobile)) # 1
                    THEN CmdException("mobile selection must be single chain")
                    ELSE IF Cardinality(GetChains(o.target)) # 1
                    THEN CmdException("target selection must be single chain")
                    ELSE IF exe = "notfound"
                    THEN CmdException("Cannot find DynDom executable")
                    ELSE NoExc
          /\ pc' = IF exc' = NoExc THEN "mkdtemp" ELSE "exit"
    /\ loc' = [dirCreated |-> FALSE, started |-> FALSE, execFailed |-> FALSE,
               status |-> 0, fixed_name |-> "None", parsed |-> FALSE,
               finallyRan |-> FALSE]
    /\ UNCHANGED <<sels, coords, files, deleteLog, effects>>

\* tempfile.mkdtemp()
DyndomMkdtemp ==
    /\ cmdName = "dyndom" /\ pc = "mkdtemp"
    /\ files' = files \cup {DyndomDir}
    /\ loc' = [loc EXCEPT !.dirCreated = TRUE]
    /\ pc' = "save"
    /\ UNCHANGED <<sels, coords, cmdName, arg, exc, names, mm, deleteLog, effects>>

\* the two saves and the command file, inside the try block
DyndomSave ==
    /\ cmdName = "dyndom" /\ pc = "save"
    /\ \E e \in {NoExc, SaveError, PyError("OSError")} :
          /\ exc' = DyndomExecError(e)
          /\ pc' = IF e = NoExc THEN "popen" ELSE "finally"
    /\ UNCHANGED <<sels, coords, cmdName, arg, loc, names, files, mm, deleteLog, effects>>

\* an exit status that is never looked at
DyndomStatusError_Ignored(status, e) == e

\* if process.poll() != 0: raise CmdException('"%s" failed with status %d')
DyndomStatusError(status, e) ==
    IF status # 0 THEN CmdException("failed with status") ELSE e

\* subprocess.Popen, reading the output, process.poll()
DyndomRun ==
    /\ cmdName = "dyndom" /\ pc = "popen"
    /\ \/ /\ exc' = DyndomExecError(PyError("OSError"))
          /\ loc' = [loc EXCEPT !.execFailed = TRUE]
          /\ pc' = "finally"
       \/ \E status \in {0, 1} :
             /\ loc' = [loc EXCEPT !.started = TRUE, !.status = status]
             /\ exc' = DyndomStatusError(status, exc)
             /\ pc' = IF exc' # NoExc THEN "finally" ELSE "parse"
    /\ UNCHANGED <<sels, coords, cmdName, arg, names, files, mm, deleteLog, effects>>

\* color gray and dyndom_parse_info
DyndomParse ==
    /\ cmdName = "dyndom" /\ pc = "parse"
    /\ \E info \in {"missing", "nodomain", "moving", "fixed"}, bending \in BOOLEAN :
          IF info = "missing"
          THEN /\ exc' = DyndomExecError(PyError("OSError"))
               /\ effects' = effects \cup {"recoloured"}
               /\ UNCHANGED <<names, loc>>
          ELSE /\ exc' = exc
               /\ effects' = effects \cup {"recoloured"}
               /\ names' = names
                     \cup (IF info = "nodomain" THEN {} ELSE {<<"domain_", 1>>})
                     \cup (IF bending THEN {<<"bending", 0>>} ELSE {})
               /\ loc' = [loc EXCEPT !.parsed = TRUE,
                             !.fixed_name = IF info = "fixed" THEN "domain_1"
                                            ELSE "None"]
    /\ pc' = "finally"
    /\ UNCHANGED <<sels, coords, cmdName, arg, files, mm, deleteLog>>

\* the finally block
DyndomCleanup ==
    /\ cmdName = "dyndom" /\ pc = "finally"
    /\ files' = DyndomFinally(files, arg.preserve, exc)
    /\ loc' = [loc EXCEPT !.finallyRan = TRUE]
    /\ pc' = IF exc = NoExc THEN "align" ELSE "exit"
    /\ UNCHANGED <<sels, coords, cmdName, arg, exc, names, mm, deleteLog, effects>>

\* if transform and fixed_name is not None: align
DyndomAlign ==
    /\ cmdName = "dyndom" /\ pc = "align"
    /\ effects' = IF arg.transform /\ loc.fixed_name # "None"
                  THEN effects \cup {"aligned"} ELSE effects
    /\ pc' = "exit"
    /\ UNCHANGED <<sels, coords, cmdName, arg, loc, exc, names, files, mm, deleteLog>>

(***************************************************************************)
(* theseus, intra_theseus, _run_theseus                                    *)
(***************************************************************************)
TheseusDir == "theseus_tempdir"

\* a _run_theseus without the except clause
TheseusExecError_Raw(e) == e

\* except OSError of _run_theseus
TheseusExecError(e) ==
    IF e.type = "OSError" THEN CmdException("Cannot execute") ELSE e

\* finally of _run_theseus: the files left on disk
RunTheseusFinally(fs, preserve) ==
    IF ~preserve THEN fs \ {TheseusDir} ELSE fs

\* rotation matrices a THESEUS output file can hold (row-major 3x3)
Rotations ==
    { <<1, 0, 0,   0, 1, 0,   0, 0, 1>>,
      <<0, -1, 0,  1, 0, 0,   0, 0, 1>>,
      <<1, 0, 0,   0, 0, -1,  0, 1, 0>>,
      <<-1, 0, 0,  0, -1, 0,  0, 0, 1>> }

\* translation vectors a THESEUS output file can hold
Translations == { <<0, 0, 0>>, <<1, -2, 0>> }

\* t_type of _run_theseus: float for theseus_transf2.txt, negated float for
\* theseus_transf.txt (THESEUS 3.x)
TType(out, t) == IF out = "transf" THEN <<-t[1], -t[2], -t[3]>> ELSE t

\* the (rotations, translations) lists parsed from the output file
TheseusOutputs(cmd, out, n) ==
    IF cmd = "intra_theseus"
    THEN { [rotations |-> R, translations |-> [i \in 1..n |-> TType(out, t[i])]] :
             R \in [1..n -> Rotations], t \in [1..n -> Translations] }
    ELSE { [rotations |-> [i \in 1..n |-> <<1, 0, 0, 0, 1, 0, 0, 0, 1>>],
            translations |-> [i \in 1..n |-> TType(out, <<0, 0, 0>>)]] }

\* intra_theseus: R[0:3] + [-t[0]] + R[3:6] + [-t[1]] + R[6:9] + [-t[2], 0, 0, 0, 1]
FitMatrix(R, t) ==
    <<R[1], R[2], R[3], -t[1],  R[4], R[5], R[6], -t[2],
      R[7], R[8], R[9], -t[3],  0, 0, 0, 1>>

\* a fit back that reuses the fit matrix as it is
BackMatrix_SameSign(m) == m

\* intra_theseus: m = list(matrices[state - 1]); for i in [3, 7, 11]: m[i] *= -1
BackMatrix(m) == [m EXCEPT ![4] = -m[4], ![8] = -m[8], ![12] = -m[12]]

\* transpose of a 4x4 row-major matrix
Transposed(m) == [k \in 1..16 |-> m[4 * ((k - 1) % 4) + ((k - 1) \div 4) + 1]]

\* cmd.transform_object on one atom: the matrix is a TTT matrix, its fourth
\* row a translation applied before the rotation and its fourth column a
\* translation applied after it
TransformObject(v, m, transpose) ==
    LET M == IF transpose THEN Transposed(m) ELSE m
        w == <<v[1] + M[13], v[2] + M[14], v[3] + M[15]>>
    IN <<M[1] * w[1] + M[2] * w[2] + M[3] * w[3] + M[4],
         M[5] * w[1] + M[6] * w[2] + M[7] * w[3] + M[8],
         M[9] * w[1] + M[10] * w[2] + M[11] * w[3] + M[12]>>

\* intra_theseus after _run_theseus: fit every state, then fit back
IntraTheseusFit(xyz, rotations, translations, state) ==
    LET n == IF Len(rotations) < Len(translations) THEN Len(rotations)
             ELSE Len(translations)
        matrices == [i \in 1..n |-> FitMatrix(rotations[i], translations[i])]
        fitted == [s \in DOMAIN xyz |->
                     IF s <= n
                     THEN [a \in DOMAIN xyz[s] |->
                             TransformObject(xyz[s][a], matrices[s], TRUE)]
                     ELSE xyz[s]]
    IN IF 0 < state /\ state <= n
       THEN [s \in DOMAIN xyz |->
               [a \in DOMAIN xyz[s] |->
                  TransformObject(fitted[s][a], BackMatrix(matrices[state]), FALSE)]]
       ELSE fitted

\* theseus up to and including tempfile.mkdtemp()
TheseusStart ==
    /\ cmdName = "idle"
    /\ cmdName' = "theseus"
    /\ \E preserve \in BOOLEAN, quiet \in BOOLEAN :
          arg' = [preserve |-> preserve, quiet |-> quiet]
    /\ files' = files \cup {TheseusDir}
    /\ loc' = [dirCreated |-> TRUE, execFailed |-> FALSE, ran |-> FALSE,
               ntransf |-> 0, matched |-> FALSE, saved |-> FALSE,
               rotations |-> <<>>, translations |-> <<>>, before |-> coords]
    /\ pc' = "match"
    /\ UNCHANGED <<sels, coords, exc, names, mm, deleteLog, effects>>

\* mm = MatchMaker(mobile, target, match)
TheseusMatch ==
    /\ cmdName = "theseus" /\ pc = "match"
    /\ \E o \in CommandMatchMakers(names) :
          /\ mm' = o
          /\ names' = o.names
          /\ exc' = o.exc
          /\ loc' = [loc EXCEPT !.matched = (o.exc = NoExc)]
          /\ pc' = IF o.exc = NoExc THEN "save" ELSE "exit"
    /\ UNCHANGED <<sels, coords, cmdName, arg, files, deleteLog, effects>>

\* intra_theseus up to and including tempfile.mkdtemp()
IntraTheseusStart ==
    /\ cmdName = "idle"
    /\ cmdName' = "intra_theseus"
    /\ \E preserve \in BOOLEAN, quiet \in BOOLEAN, state \in 0..(MaxStates + 1) :
          arg' = [preserve |-> preserve, quiet |-> quiet, state |-> state]
    /\ files' = files \cup {TheseusDir}
    /\ loc' = [dirCreated |-> TRUE, execFailed |-> FALSE, ran |-> FALSE,
               ntransf |-> 0, matched |-> FALSE, saved |-> FALSE,
               rotations |-> <<>>, translations |-> <<>>, before |-> coords]
    /\ pc' = "save"
    /\ UNCHANGED <<sels, coords, exc, names, mm, deleteLog, effects>>

\* _self.save of the input structures, before _run_theseus is called
TheseusSave ==
    /\ cmdName \in {"theseus", "intra_theseus"} /\ pc = "save"
    /\ \E ok \in BOOLEAN :
          /\ exc' = IF ok THEN exc ELSE SaveError
          /\ loc' = [loc EXCEPT !.saved = ok]
          /\ pc' = IF ok THEN "run"
                   ELSE IF cmdName = "theseus" THEN "exit" ELSE "done"
    /\ UNCHANGED <<sels, coords, cmdName, arg, names, files, mm, deleteLog, effects>>

\* the try block of _run_theseus
RunTheseus ==
    /\ cmdName \in {"theseus", "intra_theseus"} /\ pc = "run"
    /\ \/ /\ exc' = TheseusExecError(PyError("OSError"))
          /\ loc' = [loc EXCEPT !.execFailed = TRUE]
       \/ \E out \in {"none", "transf2", "transf"}, n \in 0..MaxStates :
             /\ out = "none" => n = 0
             /\ \E o \in TheseusOutputs(cmdName, out, n) :
                   loc' = [loc EXCEPT !.ran = TRUE, !.ntransf = n,
                                      !.rotations = o.rotations,
                                      !.translations = o.translations]
             /\ exc' = IF out = "none"
                       THEN CmdException("no theseus_transf2.txt or theseus_transf.txt output file")
                       ELSE exc
    /\ pc' = "run_finally"
    /\ UNCHANGED <<sels, coords, cmdName, arg, names, files, mm, deleteLog, effects>>

\* the finally block of _run_theseus
RunTheseusCleanup ==
    /\ cmdName \in {"theseus", "intra_theseus"} /\ pc = "run_finally"
    /\ files' = RunTheseusFinally(files, arg.preserve)
    /\ pc' = IF exc = NoExc THEN "transform"
             ELSE IF cmdName = "theseus" THEN "exit" ELSE "done"
    /\ UNCHANGED <<sels, coords, cmdName, arg, loc, exc, names, mm, deleteLog, effects>>

\* theseus: matrices[0] and matrices[1] applied to every object
TheseusTransform ==
    /\ cmdName = "theseus" /\ pc = "transform"
    /\ IF loc.ntransf < 2
       THEN exc' = PyError("IndexError") /\ UNCHANGED effects
       ELSE exc' = exc /\ effects' = effects \cup {"transformed"}
    /\ pc' = "exit"
    /\ UNCHANGED <<sels, coords, cmdName, arg, loc, names, files, mm, deleteLog>>

\* intra_theseus: one matrix per state, then the fit back
IntraTheseusTransform ==
    /\ cmdName = "intra_theseus" /\ pc = "transform"
    /\ effects' = IF loc.ntransf > 0 THEN effects \cup {"transformed"}
                  ELSE effects
    /\ coords' = IntraTheseusFit(coords, loc.rotations, loc.translations, arg.state)
    /\ pc' = "done"
    /\ UNCHANGED <<sels, cmdName, arg, loc, exc, names, files, mm, deleteLog>>

(***************************************************************************)
(* prosmart                                                                *)
(***************************************************************************)
ProsmartDir == "prosmart_tempdir"

\* except OSError of prosmart
ProsmartExecError(e) ==
    IF e.type = "OSError" THEN CmdException("Cannot execute") ELSE e

\* prosmart up to and including tempfile.mkdtemp()
ProsmartStart ==
    /\ cmdName = "idle"
    /\ cmdName' = "prosmart"
    /\ \E transform \in BOOLEAN, object \in BOOLEAN :
          arg' = [transform |-> transform, object |-> object]
    /\ files' = files \cup {ProsmartDir}
    /\ loc' = [dirCreated |-> TRUE, execFailed |-> FALSE, ran |-> FALSE,
               saved |-> FALSE]
    /\ pc' = "save"
    /\ UNCHANGED <<sels, coords, exc, names, mm, deleteLog, effects>>

\* the two _self.save calls, before the try block
ProsmartSave ==
    /\ cmdName = "prosmart" /\ pc = "save"
    /\ \E ok \in BOOLEAN :
          /\ exc' = IF ok THEN exc ELSE SaveError
          /\ loc' = [loc EXCEPT !.saved = ok]
          /\ pc' = IF ok THEN "run" ELSE "done"
    /\ UNCHANGED <<sels, coords, cmdName, arg, names, files, mm, deleteLog, effects>>

\* the try block of prosmart
ProsmartRun ==
    /\ cmdName = "prosmart" /\ pc = "run"
    /\ \/ /\ exc' = ProsmartExecError(PyError("OSError"))
          /\ loc' = [loc EXCEPT !.execFailed = TRUE]
          /\ UNCHANGED <<effects, names>>
       \/ \E out \in {"status", "nofiles", "ok"} :
             /\ loc' = [loc EXCEPT !.ran = TRUE]
             /\ exc' = CASE out = "status" -> PyError("CalledProcessError")
                         [] out = "nofiles" -> PyError("IndexError")
                         [] OTHER -> exc
             /\ effects' = IF out = "ok" /\ arg.transform
                           THEN effects \cup {"transformed"} ELSE effects
             /\ names' = IF out = "ok" /\ arg.object
                         THEN names \cup {<<"prosmart_aln", 0>>} ELSE names
    /\ pc' = "finally"
    /\ UNCHANGED <<sels, coords, cmdName, arg, files, mm, deleteLog>>

\* the finally block of prosmart
ProsmartCleanup ==
    /\ cmdName = "prosmart" /\ pc = "finally"
    /\ files' = files \ {ProsmartDir}
    /\ pc' = "done"
    /\ UNCHANGED <<sels, coords, cmdName, arg, loc, exc, names, mm, deleteLog, effects>>

(***************************************************************************)
(* local_rms                                                               *)
(***************************************************************************)
Windows == {0, 4}

\* position of an atom in the atom list of cmd.get_model
AtomRank(a) == (IF a.model = "m1" THEN 0 ELSE 10) + a.index

\* model.atom: the atoms of a selection in object order
AtomList(sel) ==
    CHOOSE q \in [1..Cardinality(sel) -> sel] :
        \A i, j \in 1..Cardinality(sel) : i < j => AtomRank(q[i]) < AtomRank(q[j])

\* resv2i.get(resv): index of the last atom with that residue number, 0 for None
Resv2i(atoms, resv) ==
    LET hits == {i \in 1..Len(atoms) : atoms[i].resi = resv}
    IN IF hits = {} THEN 0 ELSE CHOOSE i \in hits : \A j \in hits : j <= i

\* an i_from searched from resv downwards
IFrom_Nearest(atoms, resv, w2) ==
    LET hits == {r \in (resv - w2)..resv : Resv2i(atoms, r) # 0}
    IN IF hits = {} THEN 0
       ELSE Resv2i(atoms, CHOOSE r \in hits : \A q \in hits : r >= q)

\* i_from: first hit in range(resv - w2, resv + 1), 0 for None
IFrom(atoms, resv, w2) ==
    LET hits == {r \in (resv - w2)..resv : Resv2i(atoms, r) # 0}
    IN IF hits = {} THEN 0
       ELSE Resv2i(atoms, CHOOSE r \in hits : \A q \in hits : r <= q)

\* i_to: first hit in range(resv + w2, resv - 1, -1), 0 for None
ITo(atoms, resv, w2) ==
    LET hits == {r \in resv..(resv + w2) : Resv2i(atoms, r) # 0}
    IN IF hits = {} THEN 0
       ELSE Resv2i(atoms, CHOOSE r \in hits : \A q \in hits : r >= q)

\* the atom count test of local_rms: it compares model_mobile with itself
CountsDiffer(nmobile, ntarget) == nmobile # nmobile

RECURSIVE RmsLoop(_, _, _, _, _, _, _)
\* the window loop of local_rms from residue number resv on; resv2b is the
\* set of residue numbers that have received a value, fits the slice
\* (resv, i_from, i_to) each value was computed from
RmsLoop(atoms, ntarget, resv, seq_end, window, resv2b, fits) ==
    IF resv > seq_end THEN [exc |-> NoExc, resv2b |-> resv2b, fits |-> fits]
    ELSE LET i_from == IFrom(atoms, resv, window \div 2)
             i_to   == ITo(atoms, resv, window \div 2)
         IN IF i_from = 0 \/ i_to = 0 \/ i_to - i_from < window \div 4
            THEN RmsLoop(atoms, ntarget, resv + 1, seq_end, window, resv2b, fits)
            ELSE IF i_to > ntarget /\ i_to >= i_from
            THEN [exc |-> PyError("ValueError"), resv2b |-> resv2b, fits |-> fits]
            ELSE RmsLoop(atoms, ntarget, resv + 1, seq_end, window,
                         resv2b \cup {resv}, fits \cup {<<resv, i_from, i_to>>})

\* the guide atoms of one chain of an object with the residue numbers S
ChainAtoms(model, S) ==
    {[model |-> model, index |-> Cardinality({q \in S : q <= r}), chain |-> "A",
      resi |-> r] : r \in S}

\* the MatchMaker of local_rms on two chains, matched by identifiers or not
ChainMatchMakers(used) ==
    {MatchMakerInit(ChainAtoms("m1", S), ChainAtoms("m2", T), match, TRUE,
                    [ok |-> TRUE, cols |-> <<>>], used) :
        S \in SUBSET (1..MaxResn), T \in {1..k : k \in 0..MaxResn},
        match \in {"none", "in"}}

\* residue numbers an atom of the mobile selection can have
ResvDomain == 0..(MaxResn + 1)

\* alter(mobile, 'b=resv2b.get(resv, -1.0)'): the b of an atom by its resv
LoadB(resv2b) == [r \in ResvDomain |-> IF r \in resv2b THEN "rms" ELSE "-1.0"]

\* mm = MatchMaker(...) on the guide atoms
LocalRmsStartOn(makers, windows) ==
    /\ cmdName = "idle"
    /\ cmdName' = "local_rms"
    /\ \E o \in makers, window \in windows, load_b \in BOOLEAN :
          /\ arg' = [window |-> window, load_b |-> load_b]
          /\ mm' = o
          /\ names' = o.names
          /\ exc' = o.exc
          /\ loc' = [matched |-> (o.exc = NoExc), checked |-> FALSE,
                     rmsComputed |-> FALSE, resv2b |-> {}, fits |-> {},
                     b |-> <<>>]
          /\ pc' = IF o.exc = NoExc THEN "check" ELSE "exit"
    /\ UNCHANGED <<sels, coords, files, deleteLog, effects>>

\* local_rms on the atoms of the host
LocalRmsStart == LocalRmsStartOn(CommandMatchMakers(names), Windows)

\* local_rms on two chains with residue numbers in 1..MaxResn
LocalRmsChainStart == LocalRmsStartOn(ChainMatchMakers(names), 0..MaxWindow)

\* get_model of both selections and the atom count test
LocalRmsCheck ==
    /\ cmdName = "local_rms" /\ pc = "check"
    /\ IF CountsDiffer(Cardinality(mm.mobile), Cardinality(mm.target))
       THEN /\ exc' = CmdException("number of atoms differ, please check match method")
            /\ pc' = "exit"
       ELSE /\ exc' = exc
            /\ pc' = "rms"
    /\ loc' = [loc EXCEPT !.checked = TRUE]
    /\ UNCHANGED <<sels, coords, cmdName, arg, names, files, mm, deleteLog, effects>>

\* seq_start, seq_end and the window loop
LocalRmsCompute ==
    /\ cmdName = "local_rms" /\ pc = "rms"
    /\ IF mm.mobile = {}
       THEN /\ exc' = PyError("IndexError")
            /\ UNCHANGED loc
       ELSE LET atoms == AtomList(mm.mobile)
                r == RmsLoop(atoms, Cardinality(mm.target), atoms[1].resi,
                             atoms[Len(atoms)].resi, arg.window, {}, {})
            IN /\ exc' = r.exc
               /\ loc' = [loc EXCEPT !.resv2b = r.resv2b, !.fits = r.fits,
                                     !.rmsComputed = (r.resv2b # {})]
    /\ pc' = IF exc' = NoExc THEN "load_b" ELSE "exit"
    /\ UNCHANGED <<sels, coords, cmdName, arg, names, files, mm, deleteLog, effects>>

\* if load_b: alter b
LocalRmsLoadB ==
    /\ cmdName = "local_rms" /\ pc = "load_b"
    /\ effects' = IF arg.load_b THEN effects \cup {"b_altered"} ELSE effects
    /\ loc' = [loc EXCEPT !.b = IF arg.load_b THEN LoadB(loc.resv2b) ELSE <<>>]
    /\ pc' = "exit"
    /\ UNCHANGED <<sels, coords, cmdName, arg, exc, names, files, mm, deleteLog>>

NextLocalRms ==
    \/ LocalRmsChainStart
    \/ LocalRmsCheck
    \/ LocalRmsCompute
    \/ LocalRmsLoadB

SpecLocalRms == Init /\ [][NextLocalRms]_vars

(***************************************************************************)
(* extra_fit                                                               *)
(***************************************************************************)
\* cmd.keyword: the registered alignment commands
Keyword == {"align", "super"}

Methods == Keyword \cup {"bogus"}

\* cmd.get_object_list
GetObjectList(sel) ==
    IF \E a \in sel : a.model = "m1"
    THEN IF \E a \in sel : a.model = "m2" THEN <<"m1", "m2">> ELSE <<"m1">>
    ELSE IF \E a \in sel : a.model = "m2" THEN <<"m2">> ELSE <<>>

\* models without the reference
RemoveRef(models, reference) == SelectSeq(models, LAMBDA m : m # reference)

\* extra_fit up to the method lookup
ExtraFitStart ==
    /\ cmdName = "idle"
    /\ cmdName' = "extra_fit"
    /\ \E selection \in Selections, reference \in {"None", "m1", "m2"},
          method \in Methods, zoom \in BOOLEAN :
          LET sele_name == GetUnusedName("_", names)
              models    == GetObjectList(selection)
          IN /\ arg' = [selection |-> selection, reference |-> reference,
                        method |-> method, zoom |-> zoom]
             /\ names' = names \cup {sele_name}
             /\ IF reference = "None" /\ models = <<>>
                THEN /\ exc' = PyError("IndexError")
                     /\ pc' = "done"
                     /\ loc' = [sele_name |-> sele_name, models |-> <<>>,
                                fitted |-> <<>>]
                ELSE /\ loc' = [sele_name |-> sele_name,
                                models |-> IF reference = "None" THEN Tail(models)
                                           ELSE RemoveRef(models, reference),
                                fitted |-> <<>>]
                     /\ exc' = IF method \in Keyword THEN exc
                               ELSE CmdException("Unknown method")
                     /\ pc' = IF method \in Keyword THEN "fit" ELSE "done"
    /\ UNCHANGED <<sels, coords, files, mm, deleteLog, effects>>

\* one pass of the loop over the models: the alignment method may raise
ExtraFitModel ==
    /\ cmdName = "extra_fit" /\ pc = "fit" /\ loc.models # <<>>
    /\ \E ok \in BOOLEAN :
          /\ exc' = IF ok THEN exc ELSE CmdException("alignment failed")
          /\ pc' = IF ok THEN "fit" ELSE "done"
          /\ loc' = IF ok THEN [loc EXCEPT !.models = Tail(@),
                                           !.fitted = Append(@, Head(loc.models))]
                    ELSE loc
    /\ UNCHANGED <<sels, coords, cmdName, arg, names, files, mm, deleteLog, effects>>

\* zoom and delete(sele_name)
ExtraFitFinish ==
    /\ cmdName = "extra_fit" /\ pc = "fit" /\ loc.models = <<>>
    /\ names' = names \ {loc.sele_name}
    /\ effects' = IF arg.zoom THEN effects \cup {"zoomed"} ELSE effects
    /\ pc' = "done"
    /\ UNCHANGED <<sels, coords, cmdName, arg, loc, exc, files, mm, deleteLog>>

(***************************************************************************)
(* alignwithanymethod                                                      *)
(***************************************************************************)
\* mobile_obj: the first object of the mobile selection
MobileObj == <<"m1", 0>>

\* mobile_obj + '_' + method
CopyPrefix(method) ==
    CASE method = "align" -> "m1_align"
      [] method = "super" -> "m1_super"
      [] OTHER -> "m1_bogus"

\* the mobile argument of the command handed to _self.do
DoMobile(newmobile) == newmobile

\* no worker is inside myalign
NoneRunning(workers) ==
    \A i \in 1..Len(workers) : workers[i].pc \in {"idle", "done"}

\* methods.split(), async_
AwamStart ==
    /\ cmdName = "idle"
    /\ cmdName' = "alignwithanymethod"
    /\ \E methods \in SeqsUpTo(Methods, MaxMethods), async \in BOOLEAN :
          /\ arg' = [methods |-> methods, async |-> async]
          /\ loc' = [next |-> 1, names0 |-> names \cup {MobileObj},
                     workers |-> [i \in 1..Len(methods) |->
                                     [pc |-> "idle", newmobile |-> <<"", 0>>]],
                     created |-> <<>>, cmds |-> <<>>]
    /\ names' = names \cup {MobileObj}
    /\ pc' = "loop"
    /\ UNCHANGED <<sels, coords, exc, files, mm, deleteLog, effects>>

\* one pass of "for method in methods": skip an unregistered method, start
\* a thread (async) or call myalign, which returns before the next pass
AwamDispatch ==
    /\ cmdName = "alignwithanymethod" /\ pc = "loop"
    /\ loc.next <= Len(arg.methods)
    /\ arg.async \/ NoneRunning(loc.workers)
    /\ loc' = IF arg.methods[loc.next] \notin Keyword
              THEN [loc EXCEPT !.next = @ + 1]
              ELSE [loc EXCEPT !.next = @ + 1,
                               !.workers[loc.next].pc = "getname"]
    /\ UNCHANGED <<sels, coords, cmdName, pc, arg, exc, names, files, mm, deleteLog, effects>>

\* the loop is over; the command returns
AwamReturn ==
    /\ cmdName = "alignwithanymethod" /\ pc = "loop"
    /\ loc.next > Len(arg.methods)
    /\ arg.async \/ NoneRunning(loc.workers)
    /\ pc' = "returned"
    /\ UNCHANGED <<sels, coords, cmdName, arg, loc, exc, names, files, mm, deleteLog, effects>>

\* myalign: newmobile = get_unused_name(mobile_obj + '_' + method)
MyalignGetName(i) ==
    /\ cmdName = "alignwithanymethod"
    /\ loc.workers[i].pc = "getname"
    /\ loc' = [loc EXCEPT
                 !.workers[i].pc = "create",
                 !.workers[i].newmobile =
                     GetUnusedName(CopyPrefix(arg.methods[i]), names)]
    /\ UNCHANGED <<sels, coords, cmdName, pc, arg, exc, names, files, mm, deleteLog, effects>>

\* myalign: create(newmobile, mobile_obj)
MyalignCreate(i) ==
    /\ cmdName = "alignwithanymethod"
    /\ loc.workers[i].pc = "create"
    /\ names' = names \cup {loc.workers[i].newmobile}
    /\ loc' = [loc EXCEPT
                 !.workers[i].pc = "do",
                 !.created = Append(@, [worker |-> i,
                                        name |-> loc.workers[i].newmobile,
                                        unused |-> loc.workers[i].newmobile \notin names])]
    /\ UNCHANGED <<sels, coords, cmdName, pc, arg, exc, files, mm, deleteLog, effects>>

\* myalign: do('<method> mobile=<newmobile> in <mobile>, target=<target>')
MyalignDo(i) ==
    /\ cmdName = "alignwithanymethod"
    /\ loc.workers[i].pc = "do"
    /\ loc' = [loc EXCEPT
                 !.workers[i].pc = "done",
                 !.cmds = Append(@, [worker |-> i, method |-> arg.methods[i],
                                     mobile |-> DoMobile(loc.workers[i].newmobile)])]
    /\ UNCHANGED <<sels, coords, cmdName, pc, arg, exc, names, files, mm, deleteLog, effects>>

Myalign ==
    \E i \in 1..MaxMethods + 1 :
        /\ cmdName = "alignwithanymethod"
        /\ i <= Len(arg.methods)
        /\ \/ MyalignGetName(i)
           \/ MyalignCreate(i)
           \/ MyalignDo(i)

\* the command returns or raises; its MatchMaker is finalized
CommandReturn ==
    /\ cmdName \in {"dyndom", "theseus", "local_rms"} /\ pc = "exit"
    /\ deleteLog' = deleteLog \o Cleanup(mm)
    /\ names' = names \ SeqToSet(Cleanup(mm))
    /\ pc' = "done"
    /\ UNCHANGED <<sels, coords, cmdName, arg, loc, exc, files, mm, effects>>

Next ==
    \/ MMConstruct
    \/ MMEnter
    \/ MMExit
    \/ MMDel
    \/ DyndomStart
    \/ DyndomMkdtemp
    \/ DyndomSave
    \/ DyndomRun
    \/ DyndomParse
    \/ DyndomCleanup
    \/ DyndomAlign
    \/ CommandReturn
    \/ TheseusStart
    \/ TheseusMatch
    \/ IntraTheseusStart
    \/ TheseusSave
    \/ RunTheseus
    \/ RunTheseusCleanup
    \/ TheseusTransform
    \/ IntraTheseusTransform
    \/ ProsmartStart
    \/ ProsmartSave
    \/ ProsmartRun
    \/ ProsmartCleanup
    \/ LocalRmsStart
    \/ LocalRmsCheck
    \/ LocalRmsCompute
    \/ LocalRmsLoadB
    \/ ExtraFitStart
    \/ ExtraFitModel
    \/ ExtraFitFinish
    \/ AwamStart
    \/ AwamDispatch
    \/ AwamReturn
    \/ Myalign
    \/ TmalignStart
    \/ TmalignSaveMobile
    \/ TmalignSaveTarget
    \/ TmalignRun
    \/ TmalignReadMatrix
    \/ TmalignParse
    \/ TmalignFinish

Spec == Init /\ [][Next]_vars

(***************************************************************************)
(* intra_center                                                            *)
(***************************************************************************)
\* the object an atom belongs to
ObjectOf(a) == IF a = 3 THEN "m2" ELSE "m1"

\* the object has any of two coordinates for every atom in every state
InitCenter ==
    InitHost /\ coords \in [States -> [AtomIds -> { <<0, 0, 0>>, <<2, -4, 6>> }]]

VAdd(u, v) == <<u[1] + v[1], u[2] + v[2], u[3] + v[3]>>

VSub(u, v) == <<u[1] - v[1], u[2] - v[2], u[3] - v[3]>>

RECURSIVE VSum(_, _)
\* sum of the coordinates of the atoms of sel
VSum(xyz, sel) ==
    IF sel = {} THEN <<0, 0, 0>>
    ELSE LET a == CHOOSE x \in sel : TRUE
         IN VAdd(xyz[a], VSum(xyz, sel \ {a}))

\* get_coords(selection, state).mean(0)
Centroid(xyz, sel) ==
    LET t == VSum(xyz, sel)
        n == Cardinality(sel)
    IN <<t[1] \div n, t[2] \div n, t[3] \div n>>

\* an offset taken from the centroid of the state to the reference centroid
\* with the operands exchanged
CenterOffset_Exchanged(center, xyz, sel) == VSub(Centroid(xyz, sel), center)

\* offset = center - get_coords(selection, state).mean(0)
CenterOffset(center, xyz, sel) == VSub(center, Centroid(xyz, sel))

\* translate(offset, 'none', state, camera=0, object=obj, object_mode=1) for
\* every obj of objects: the atoms of these objects move in that state
Translate(xyz, offset, objects) ==
    [a \in DOMAIN xyz |->
        IF ObjectOf(a) \in objects THEN VAdd(xyz[a], offset) ELSE xyz[a]]

\* objects = get_object_list(selection); center = get_coords(...).mean(0)
IntraCenterStart ==
    /\ cmdName = "idle"
    /\ cmdName' = "intra_center"
    /\ \E selection \in { {1}, {1, 2}, {1, 3}, {2, 3} }, state \in States :
          /\ arg' = [selection |-> selection, state |-> state]
          /\ loc' = [objects |-> {ObjectOf(a) : a \in selection},
                     center |-> Centroid(coords[state], selection),
                     state |-> 1, before |-> coords]
    /\ pc' = "loop"
    /\ UNCHANGED <<sels, coords, exc, names, files, mm, deleteLog, effects>>

\* one iteration of for state in range(1, count_states(selection) + 1)
IntraCenterState ==
    /\ cmdName = "intra_center" /\ pc = "loop"
    /\ LET offset == CenterOffset(loc.center, coords[loc.state], arg.selection)
       IN coords' = [coords EXCEPT ![loc.state] = Translate(@, offset, loc.objects)]
    /\ loc' = [loc EXCEPT !.state = loc.state + 1]
    /\ pc' = IF loc.state = MaxStates THEN "done" ELSE "loop"
    /\ UNCHANGED <<sels, cmdName, arg, exc, names, files, mm, deleteLog, effects>>

NextCenter == IntraCenterStart \/ IntraCenterState

SpecCenter == InitCenter /\ [][NextCenter]_vars

(***************************************************************************)
(* select_pepseq                                                           *)
(***************************************************************************)
\* the guide atoms of the selection: a residue name (UNK is not a key of
\* one_letter) and a position along a line
GuideAtoms == [resn : {"ALA", "GLY", "UNK"}, x : {0, 3, 10}]

\* one_letter.get(resn, '#')
OneLetter(resn) ==
    IF resn = "ALA" THEN "A" ELSE IF resn = "GLY" THEN "G" ELSE "#"

\* str.upper on one character of the pattern
Upper(c) == IF c = "a" THEN "A" ELSE IF c = "g" THEN "G" ELSE c

\* cpv.distance(coord, prev)
Distance(x, y) == IF x >= y THEN x - y ELSE y - x

\* prev = [1e300, 1e300, 1e300]
FarAway == 1000000

\* a callback that never marks a gap
Callback_NoGapMark(st, atom, index, cutoff) ==
    [seq_list |-> Append(st.seq_list, OneLetter(atom.resn)),
     idx_list |-> Append(st.idx_list, index),
     prev |-> atom.x]

\* callback(model, index, resn, coord) of select_pepseq; None is 0
Callback(st, atom, index, cutoff) ==
    LET gap == Distance(atom.x, st.prev) > cutoff
    IN [seq_list |-> (IF gap THEN Append(st.seq_list, "#") ELSE st.seq_list)
                        \o <<OneLetter(atom.resn)>>,
        idx_list |-> (IF gap THEN Append(st.idx_list, 0) ELSE st.idx_list)
                        \o <<index>>,
        prev |-> atom.x]

RECURSIVE IterateState(_, _, _, _)
\* iterate_state over the guide atoms from atom i on
IterateState(atoms, i, st, cutoff) ==
    IF i > Len(atoms) THEN st
    ELSE IterateState(atoms, i + 1, Callback(st, atoms[i], i, cutoff), cutoff)

\* re.match of the pattern at offset pos (0-based) of the string; the
\* wildcard matches any character
MatchesAt(pat, str, pos) ==
    /\ pos + Len(pat) <= Len(str)
    /\ \A k \in 1..Len(pat) : pat[k] = "." \/ pat[k] = str[pos + k]

RECURSIVE FindIter(_, _, _)
\* re.finditer: the spans (start, stop) of the non-overlapping matches
FindIter(pat, str, pos) ==
    IF pos + Len(pat) > Len(str) THEN <<>>
    ELSE IF MatchesAt(pat, str, pos)
    THEN <<(<<pos, pos + Len(pat)>>)>> \o FindIter(pat, str, pos + Len(pat))
    ELSE FindIter(pat, str, pos + 1)

\* idx for idx in idx_list[start:stop] if idx is not None, over all matches
SelList(matches, idx_list) ==
    {idx_list[k] : k \in {j \in 1..Len(idx_list) :
                            /\ idx_list[j] # 0
                            /\ \E m \in 1..Len(matches) :
                                 matches[m][1] < j /\ j <= matches[m][2]}}

\* select_pepseq up to and including iterate_state
SelectPepseqStart ==
    /\ cmdName = "idle"
    /\ cmdName' = "select_pepseq"
    /\ \E atoms \in SeqsUpTo(GuideAtoms, MaxGuide),
          pattern \in SeqsUpTo({"A", "g", "."}, MaxPattern) \ {<<>>},
          cutoff \in {4} :
          /\ arg' = [atoms |-> atoms, pattern |-> pattern, cutoff |-> cutoff,
                     name |-> <<"sele", 0>>]
          /\ LET st == IterateState(atoms, 1,
                           [seq_list |-> <<>>, idx_list |-> <<>>, prev |-> FarAway],
                           cutoff)
             IN loc' = [seq_list |-> st.seq_list, idx_list |-> st.idx_list,
                        matches |-> <<>>]
    /\ pc' = "match"
    /\ UNCHANGED <<sels, coords, exc, names, files, mm, deleteLog, effects>>

\* re.finditer, the spans of the matches and the final select
SelectPepseqSelect ==
    /\ cmdName = "select_pepseq" /\ pc = "match"
    /\ LET upper == [k \in 1..Len(arg.pattern) |-> Upper(arg.pattern[k])]
           matches == FindIter(upper, loc.seq_list, 0)
       IN /\ loc' = [loc EXCEPT !.matches = matches]
          /\ sels' = (arg.name :> SelList(matches, loc.idx_list)) @@ sels
          /\ names' = names \cup {arg.name}
    /\ pc' = "done"
    /\ UNCHANGED <<coords, cmdName, arg, exc, files, mm, deleteLog, effects>>

NextPepseq == SelectPepseqStart \/ SelectPepseqSelect

SpecPepseq == Init /\ [][NextPepseq]_vars

(***************************************************************************)
(* collapse_resi                                                           *)
(***************************************************************************)
\* the residues of the atoms a selection can hold: chain and resv, in one
\* model and segment
ResidueIds == [chain : {"A", "B"}, resv : (-1)..MaxResv]

\* s_dict after iterate: key -> set of residue numbers
SDict(sel) ==
    [key \in {a.chain : a \in sel} |-> {a.resv : a \in {b \in sel : b.chain = key}}]

RECURSIVE Sorted(_)
\* sorted(s)
Sorted(set) ==
    IF set = {} THEN <<>>
    ELSE LET lo == CHOOSE x \in set : \A y \in set : x <= y
         IN <<lo>> \o Sorted(set \ {lo})

\* a test that joins a residue number to the last range only when it lies
\* inside it
Extends_Inside(i, last) == i <= last

\* if i <= r[-1][1] + 1
Extends(i, last) == i <= last + 1

RECURSIVE Ranges(_, _, _)
\* for i in s[1:]: extend the last range of r or append [i, i]
Ranges(sorted, k, r) ==
    IF k > Len(sorted) THEN r
    ELSE LET i == sorted[k]
             last == r[Len(r)]
         IN IF Extends(i, last[2])
            THEN Ranges(sorted, k + 1, [r EXCEPT ![Len(r)] = <<last[1], i>>])
            ELSE Ranges(sorted, k + 1, Append(r, <<i, i>>))

\* '%d-%d' % (f, t) if f != t else '%d' % (f): the numbers written
FormatRange(f, t) == IF f # t THEN <<f, t>> ELSE <<f>>

\* the '+'-joined ranges of one key
CollapseKey(set) ==
    LET sorted == Sorted(set)
        r == Ranges(sorted, 2, << <<sorted[1], sorted[1]>> >>)
    IN [k \in 1..Len(r) |-> FormatRange(r[k][1], r[k][2])]

\* collapse_resi up to and including iterate
CollapseResiStart ==
    /\ cmdName = "idle"
    /\ cmdName' = "collapse_resi"
    /\ \E selection \in SUBSET ResidueIds :
          /\ arg' = [selection |-> selection]
          /\ loc' = [s_dict |-> SDict(selection), r_all |-> <<>>]
          /\ pc' = IF selection = {} THEN "done" ELSE "loop"
    /\ UNCHANGED <<sels, coords, exc, names, files, mm, deleteLog, effects>>

\* one iteration of for key, s in s_dict.items()
CollapseResiKey ==
    /\ cmdName = "collapse_resi" /\ pc = "loop"
    /\ \E key \in DOMAIN loc.s_dict :
          /\ \A k \in 1..Len(loc.r_all) : loc.r_all[k].key # key
          /\ loc' = [loc EXCEPT !.r_all =
                        Append(@, [key |-> key, resi |-> CollapseKey(loc.s_dict[key])])]
          /\ pc' = IF Len(loc.r_all) + 1 = Cardinality(DOMAIN loc.s_dict)
                   THEN "done" ELSE "loop"
    /\ UNCHANGED <<sels, coords, cmdName, arg, exc, names, files, mm, deleteLog, effects>>

NextCollapse == CollapseResiStart \/ CollapseResiKey

SpecCollapse == Init /\ [][NextCollapse]_vars

(***************************************************************************)
(* diff, symdiff                                                           *)
(***************************************************************************)
SeleName == <<"sele", 0>>

\* a named selection "sele" may exist before the command
InitSymdiff ==
    /\ cmdName = "idle"
    /\ pc = "idle"
    /\ arg = [none |-> TRUE]
    /\ loc = [none |-> TRUE]
    /\ exc = NoExc
    /\ \/ names = {AlnObjectName} /\ sels = <<>>
       \/ \E old \in Selections :
             names = {AlnObjectName, SeleName} /\ sels = (SeleName :> old)
    /\ files = {}
    /\ mm = NoMM
    /\ deleteLog = <<>>
    /\ effects = {}
    /\ coords = DefaultCoords

\* a select that always replaces the named selection
Select_Replace(store, name, atoms, merge) == (name :> atoms) @@ store

\* cmd.select(name, selection, merge=merge): the named selections afterwards
Select(store, name, atoms, merge) ==
    IF merge /\ name \in DOMAIN store
    THEN (name :> (store[name] \cup atoms)) @@ store
    ELSE (name :> atoms) @@ store

\* cmd.delete(name) on the named selections
Delete(store, name) == [n \in (DOMAIN store) \ {name} |-> store[n]]

\* the selection expression of diff: (sele1) and not ((sele1) operator (sele2)),
\* or (sele1) and not alnobj for operator align
DiffSele(sele1, sele2, operator, alnatoms) ==
    IF operator = "align" THEN sele1 \ alnatoms
    ELSE IF operator = "in" THEN sele1 \ OpIn(sele1, sele2)
    ELSE sele1 \ OpLike(sele1, sele2)

\* what diff prints: nothing when quiet, residues or atoms otherwise
DiffPrinted(quiet, byres) ==
    IF quiet THEN {} ELSE IF byres THEN {"residues"} ELSE {"atoms"}

\* name and tmpname of symdiff
SymdiffStart ==
    /\ cmdName = "idle"
    /\ cmdName' = "symdiff"
    /\ \E sele1 \in Selections, sele2 \in Selections, byres \in BOOLEAN,
          quiet \in BOOLEAN, operator \in {"in", "like", "align"},
          given \in BOOLEAN :
          LET name == IF given THEN SeleName ELSE GetUnusedName("symdiff", names)
          IN /\ arg' = [sele1 |-> sele1, sele2 |-> sele2, byres |-> byres,
                        quiet |-> quiet, operator |-> operator, name |-> name]
             /\ loc' = [tmpname |-> GetUnusedName("__tmp", names),
                        aln1 |-> {}, aln2 |-> {}]
    /\ pc' = "diff1"
    /\ UNCHANGED <<sels, coords, exc, names, files, mm, deleteLog, effects>>

\* diff(sele1, sele2, byres, name, operator, quiet)
SymdiffDiff1 ==
    /\ cmdName = "symdiff" /\ pc = "diff1"
    /\ IF arg.operator = "align" /\ AlignResults(arg.sele1, arg.sele2) = {}
       THEN /\ exc' = CmdException("align failed")
            /\ pc' = "done"
            /\ UNCHANGED <<sels, names, loc, effects>>
       ELSE \E aln \in IF arg.operator = "align"
                       THEN AlignResults(arg.sele1, arg.sele2) ELSE {<<>>} :
               /\ sels' = Select(sels, arg.name,
                                 DiffSele(arg.sele1, arg.sele2, arg.operator,
                                          AlnAtoms(aln)), FALSE)
               /\ names' = names \cup {arg.name}
               /\ loc' = [loc EXCEPT !.aln1 = AlnAtoms(aln)]
               /\ effects' = effects \cup DiffPrinted(arg.quiet, arg.byres)
               /\ exc' = exc
               /\ pc' = "diff2"
    /\ UNCHANGED <<coords, cmdName, arg, files, mm, deleteLog>>

\* diff(sele2, sele1, byres, tmpname, operator, quiet)
SymdiffDiff2 ==
    /\ cmdName = "symdiff" /\ pc = "diff2"
    /\ \E aln \in IF arg.operator = "align"
                  THEN AlignResults(arg.sele2, arg.sele1) ELSE {<<>>} :
          /\ sels' = Select(sels, loc.tmpname,
                            DiffSele(arg.sele2, arg.sele1, arg.operator,
                                     AlnAtoms(aln)), FALSE)
          /\ names' = names \cup {loc.tmpname}
          /\ loc' = [loc EXCEPT !.aln2 = AlnAtoms(aln)]
    /\ pc' = "merge"
    /\ UNCHANGED <<coords, cmdName, arg, exc, files, mm, deleteLog, effects>>

\* select(name, tmpname, merge=1); delete(tmpname)
SymdiffMerge ==
    /\ cmdName = "symdiff" /\ pc = "merge"
    /\ sels' = Delete(Select(sels, arg.name, sels[loc.tmpname], TRUE), loc.tmpname)
    /\ names' = names \ {loc.tmpname}
    /\ pc' = "done"
    /\ UNCHANGED <<coords, cmdName, arg, loc, exc, files, mm, deleteLog, effects>>

NextSymdiff == SymdiffStart \/ SymdiffDiff1 \/ SymdiffDiff2 \/ SymdiffMerge

SpecSymdiff == InitSymdiff /\ [][NextSymdiff]_vars

(***************************************************************************)
(* select_range                                                            *)
(***************************************************************************)
\* the atoms of two objects, each atom with its index in the object
RangeAtoms == [model : {"m1", "m2"}, index : 1..MaxIndex]

\* the named selection "sele" may exist and be enabled before the command
InitRange ==
    /\ cmdName = "idle"
    /\ pc = "idle"
    /\ arg = [none |-> TRUE]
    /\ loc = [none |-> TRUE]
    /\ exc = NoExc
    /\ \/ names = {AlnObjectName} /\ sels = <<>>
       \/ \E old \in SUBSET RangeAtoms :
             names = {AlnObjectName, SeleName} /\ sels = (SeleName :> old)
    /\ files = {}
    /\ mm = NoMM
    /\ deleteLog = <<>>
    /\ effects = {}
    /\ coords = DefaultCoords

\* get_object_list(tmpsele): the objects with atoms in the selection, in order
ObjectList(sel) ==
    (IF \E a \in sel : a.model = "m1" THEN <<"m1">> ELSE <<>>)
        \o (IF \E a \in sel : a.model = "m2" THEN <<"m2">> ELSE <<>>)

\* index("first (%model & tmpsele)")[0][1]
IdxFirst(model, sel) ==
    CHOOSE i \in 1..MaxIndex :
        /\ [model |-> model, index |-> i] \in sel
        /\ \A a \in sel : a.model = model => i <= a.index

\* index("last (%model & tmpsele)")[0][1]
IdxLast(model, sel) ==
    CHOOSE i \in 1..MaxIndex :
        /\ [model |-> model, index |-> i] \in sel
        /\ \A a \in sel : a.model = model => i >= a.index

\* %model & index first-last
IndexRange(model, first, last) ==
    {a \in RangeAtoms : a.model = model /\ first <= a.index /\ a.index <= last}

\* a loop that keeps the merge argument for every object
MergeAfterFirst_Kept(merge) == merge

\* merge = 1 at the end of the loop body
MergeAfterFirst(merge) == TRUE

\* select_range up to and including select(tmpsele, selection)
SelectRangeStart ==
    /\ cmdName = "idle"
    /\ cmdName' = "select_range"
    /\ \E merge \in BOOLEAN, given \in BOOLEAN, selection \in SUBSET RangeAtoms :
          /\ ~given => (SeleName \in DOMAIN sels /\ selection = sels[SeleName])
          /\ LET tmpsele == GetUnusedName("_tmpsele", names)
             IN /\ arg' = [name |-> SeleName, selection |-> selection,
                           given |-> given, merge |-> merge]
                /\ loc' = [tmpsele |-> tmpsele, merge |-> merge,
                           models |-> ObjectList(selection), before |-> sels]
                /\ sels' = Select(sels, tmpsele, selection, FALSE)
                /\ names' = names \cup {tmpsele}
    /\ pc' = "loop"
    /\ UNCHANGED <<coords, exc, files, mm, deleteLog, effects>>

\* one iteration of for model in get_object_list(tmpsele)
SelectRangeModel ==
    /\ cmdName = "select_range" /\ pc = "loop"
    /\ loc.models # <<>>
    /\ LET model == Head(loc.models)
           idx_first == IdxFirst(model, sels[loc.tmpsele])
           idx_last == IdxLast(model, sels[loc.tmpsele])
       IN /\ sels' = Select(sels, arg.name,
                            IndexRange(model, idx_first, idx_last), loc.merge)
          /\ names' = names \cup {arg.name}
    /\ loc' = [loc EXCEPT !.models = Tail(@), !.merge = MergeAfterFirst(@)]
    /\ UNCHANGED <<coords, cmdName, pc, arg, exc, files, mm, deleteLog, effects>>

\* finally: delete(tmpsele)
SelectRangeFinally ==
    /\ cmdName = "select_range" /\ pc = "loop"
    /\ loc.models = <<>>
    /\ sels' = Delete(sels, loc.tmpsele)
    /\ names' = names \ {loc.tmpsele}
    /\ pc' = "done"
    /\ UNCHANGED <<coords, cmdName, arg, loc, exc, files, mm, deleteLog, effects>>

NextRange == SelectRangeStart \/ SelectRangeModel \/ SelectRangeFinally

SpecRange == InitRange /\ [][NextRange]_vars

(***************************************************************************)
(* select_domains                                                          *)
(***************************************************************************)
\* gen(start, end): the split points i of range(start + minsize, end - minsize)
Gen(start, end, minsize) == (start + minsize)..(end - minsize - 1)

\* min(gen(start, end)): the smallest (score, i) pair, score[i] being
\* func(dist_mat[:i, :i]) + func(dist_mat[i:, i:])
MinSplit(cands, score) ==
    CHOOSE i \in cands :
        \A j \in cands : score[i] < score[j] \/ (score[i] = score[j] /\ i <= j)

RECURSIVE GenAll(_, _, _, _, _)
\* gen_all(start, end): the split points of all partitions
GenAll(start, end, minsize, score, cutoff) ==
    LET cands == Gen(start, end, minsize)
    IN IF cands = {} THEN {}
       ELSE LET j0 == MinSplit(cands, score)
            IN IF score[j0] > cutoff THEN {}
               ELSE {j0} \cup GenAll(start, j0, minsize, score, cutoff)
                         \cup GenAll(j0, end, minsize, score, cutoff)

\* boundaries = [0] + sorted(j for (d, j) in partitions) + [N]
Boundaries(N, partitions) == <<0>> \o Sorted(partitions) \o <<N>>

\* prefix_chain_resi_resi of the domain from guide atom i to guide atom j - 1
DomainName(i, j) == <<"domain_A", 100 * (i + 1) + j>>

\* select_domains for one chain up to and including boundaries
SelectDomainsStart ==
    /\ cmdName = "idle"
    /\ cmdName' = "select_domains"
    /\ \E N \in 0..MaxChain, minsize \in 1..MaxMinsize, cutoff \in {0, 1} :
         \E score \in [1..(N - 1) -> {0, 1, 2}] :
          /\ arg' = [N |-> N, minsize |-> minsize, cutoff |-> cutoff,
                     score |-> score]
          /\ loc' = [boundaries |->
                        IF N = 0 THEN <<>>
                        ELSE Boundaries(N, GenAll(0, N, minsize, score, cutoff)),
                     k |-> 1, created |-> {}]
    /\ pc' = "loop"
    /\ UNCHANGED <<sels, coords, exc, names, files, mm, deleteLog, effects>>

\* one iteration of for (i, j) in zip(boundaries[:-1], boundaries[1:])
SelectDomainsSelect ==
    /\ cmdName = "select_domains" /\ pc = "loop"
    /\ loc.k < Len(loc.boundaries)
    /\ LET i == loc.boundaries[loc.k]
           j == loc.boundaries[loc.k + 1]
           name == DomainName(i, j)
       IN /\ sels' = Select(sels, name, (i + 1)..j, FALSE)
          /\ names' = names \cup {name}
          /\ loc' = [loc EXCEPT !.k = loc.k + 1, !.created = @ \cup {name}]
    /\ UNCHANGED <<coords, cmdName, pc, arg, exc, files, mm, deleteLog, effects>>

\* return names
SelectDomainsReturn ==
    /\ cmdName = "select_domains" /\ pc = "loop"
    /\ loc.k >= Len(loc.boundaries)
    /\ pc' = "done"
    /\ UNCHANGED <<sels, coords, cmdName, arg, loc, exc, names, files, mm, deleteLog, effects>>

NextDomains == SelectDomainsStart \/ SelectDomainsSelect \/ SelectDomainsReturn

SpecDomains == Init /\ [][NextDomains]_vars

(***************************************************************************)
(* select_temporary                                                        *)
(***************************************************************************)
\* named selections with the prefix _sele may exist before the with-statement
InitTemporary ==
    /\ cmdName = "idle"
    /\ pc = "idle"
    /\ arg = [none |-> TRUE]
    /\ loc = [none |-> TRUE]
    /\ exc = NoExc
    /\ \E old \in SUBSET {<<"_sele", 1>>, <<"_sele", 2>>} :
          /\ names = {AlnObjectName} \cup old
          /\ sels = [n \in old |-> {}]
    /\ files = {}
    /\ mm = NoMM
    /\ deleteLog = <<>>
    /\ effects = {}
    /\ coords = DefaultCoords

\* an __exit__ that deletes only when the block has not raised
TemporaryExit_OnSuccess(store, name, raised) ==
    IF raised THEN store ELSE Delete(store, name)

\* select_temporary.__exit__: delete(self.name)
TemporaryExit(store, name, raised) == Delete(store, name)

\* select_temporary.__init__
SelectTemporaryInit ==
    /\ cmdName = "idle"
    /\ cmdName' = "select_temporary"
    /\ \E sele \in Selections, valid \in BOOLEAN :
          arg' = [sele |-> sele, valid |-> valid, prefix |-> "_sele"]
    /\ loc' = [name |-> <<"", 0>>, before |-> names]
    /\ pc' = "constructed"
    /\ UNCHANGED <<sels, coords, exc, names, files, mm, deleteLog, effects>>

\* select_temporary.__enter__; select raises on an invalid expression
SelectTemporaryEnter ==
    /\ cmdName = "select_temporary" /\ pc = "constructed"
    /\ LET name == GetUnusedName(arg.prefix, names)
       IN /\ loc' = [loc EXCEPT !.name = name]
          /\ IF arg.valid
             THEN /\ sels' = Select(sels, name, arg.sele, FALSE)
                  /\ names' = names \cup {name}
                  /\ exc' = exc
                  /\ pc' = "inside"
             ELSE /\ exc' = CmdException("invalid selection")
                  /\ pc' = "failed"
                  /\ UNCHANGED <<sels, names>>
    /\ UNCHANGED <<coords, cmdName, arg, files, mm, deleteLog, effects>>

\* the body of the with-statement: it completes or raises
SelectTemporaryBody ==
    /\ cmdName = "select_temporary" /\ pc = "inside"
    /\ \E raised \in BOOLEAN :
          exc' = IF raised THEN PyError("Exception") ELSE exc
    /\ pc' = "leaving"
    /\ UNCHANGED <<sels, coords, cmdName, arg, loc, names, files, mm, deleteLog, effects>>

\* select_temporary.__exit__
SelectTemporaryExit ==
    /\ cmdName = "select_temporary" /\ pc = "leaving"
    /\ sels' = TemporaryExit(sels, loc.name, exc # NoExc)
    /\ names' = {n \in names : n # loc.name \/ n \in DOMAIN sels'}
    /\ pc' = "exited"
    /\ UNCHANGED <<coords, cmdName, arg, loc, exc, files, mm, deleteLog, effects>>

NextTemporary ==
    \/ SelectTemporaryInit
    \/ SelectTemporaryEnter
    \/ SelectTemporaryBody
    \/ SelectTemporaryExit

SpecTemporary == InitTemporary /\ [][NextTemporary]_vars

(***************************************************************************)
(* select_sspick                                                           *)
(***************************************************************************)
\* the residues 1..MaxSsResv of one chain of one object: a residue may be
\* missing; a present residue has a C-alpha atom with a secondary-structure
\* type
SsResidues ==
    [1..MaxSsResv ->
        {[present |-> FALSE, ca |-> "H"]}
        \cup {[present |-> TRUE, ca |-> c] : c \in {"H", "S"}}]

\* iterate 'bycalpha (selection)': a (key, resv) pair for the C-alpha atom of
\* each residue with a selected atom; model, segi and chain of the key are
\* those of the one chain, so the key is the ss type
QKeys(residues, selection) == {<<residues[i].ca, i>> : i \in selection}

\* a test that finds no residue in any interval
InIntervals_Never(i, intervals) == FALSE

\* in_intervals(i, intervals)
InIntervals(i, intervals) ==
    \E k \in 1..Len(intervals) : intervals[k][1] <= i /\ i <= intervals[k][2]

\* iterate '/model/segi/chain//CA and ss "<ss>"': resv_set
ResvSet(residues, ss) ==
    {i \in DOMAIN residues : residues[i].present /\ residues[i].ca = ss}

RECURSIVE ResvMin(_, _)
\* while (resv_min - 1) in resv_set: resv_min -= 1
ResvMin(resv, resv_set) ==
    IF (resv - 1) \in resv_set THEN ResvMin(resv - 1, resv_set) ELSE resv

RECURSIVE ResvMax(_, _)
\* while (resv_max + 1) in resv_set: resv_max += 1
ResvMax(resv, resv_set) ==
    IF (resv + 1) \in resv_set THEN ResvMax(resv + 1, resv_set) ELSE resv

\* the residues selected by '/model/segi/chain/<resv_min>-<resv_max>' for the
\* intervals of all keys
SspickSele(residues, elements) ==
    {i \in DOMAIN residues :
        /\ residues[i].present
        /\ \E key \in DOMAIN elements : InIntervals(i, elements[key])}

\* select_sspick up to the loop: the query of the selected residues
SelectSspickStart ==
    /\ cmdName = "idle"
    /\ cmdName' = "select_sspick"
    /\ \E residues \in SsResidues, named \in BOOLEAN :
         \E selection \in SUBSET {i \in DOMAIN residues : residues[i].present} :
          /\ arg' = [residues |-> residues, selection |-> selection,
                     named |-> named]
          /\ loc' = [qkeys |-> QKeys(residues, selection), elements |-> <<>>,
                     seen |-> {}]
    /\ pc' = "loop"
    /\ UNCHANGED <<sels, coords, exc, names, files, mm, deleteLog, effects>>

\* one pass of "for key, resv in qkeys", in the arbitrary order of a set
SelectSspickKey ==
    /\ cmdName = "select_sspick" /\ pc = "loop"
    /\ \E q \in loc.qkeys :
          LET key == q[1]
              resv == q[2]
              element == IF key \in DOMAIN loc.elements
                         THEN loc.elements[key] ELSE <<>>
              resv_set == ResvSet(arg.residues, key)
              interval == <<ResvMin(resv, resv_set), ResvMax(resv, resv_set)>>
          IN loc' = [loc EXCEPT
                       !.qkeys = @ \ {q},
                       !.seen = @ \cup {q},
                       !.elements =
                           IF InIntervals(resv, element)
                           THEN (key :> element) @@ @
                           ELSE (key :> Append(element, interval)) @@ @]
    /\ UNCHANGED <<sels, coords, cmdName, pc, arg, exc, names, files, mm, deleteLog, effects>>

\* the selection expression of all intervals and select(name, sele)
SelectSspickSelect ==
    /\ cmdName = "select_sspick" /\ pc = "loop"
    /\ loc.qkeys = {}
    /\ IF arg.named
       THEN /\ sels' = Select(sels, SeleName,
                              SspickSele(arg.residues, loc.elements), FALSE)
            /\ names' = names \cup {SeleName}
       ELSE UNCHANGED <<sels, names>>
    /\ pc' = "done"
    /\ UNCHANGED <<coords, cmdName, arg, loc, exc, files, mm, deleteLog, effects>>

NextSspick == SelectSspickStart \/ SelectSspickKey \/ SelectSspickSelect

SpecSspick == Init /\ [][NextSspick]_vars

(***************************************************************************)
(* promix, intra_promix, _promix                                           *)
(***************************************************************************)
\* prefix = obj + '_segment'
\* if not prefix: prefix = obj + '_segment'
SegmentPrefix(obj) == obj \o "_segment"

\* get_object_name: an object of the selection; for an empty selection the
\* lookup has no object to choose from and any loaded object stands for its
\* outcome
ObjectNames(selection) ==
    IF selection = {} THEN {a.model : a \in Atoms}
    ELSE {a.model : a \in selection}

\* select_list(name, obj, id_list): the atoms of obj with an ID in id_list
SelectList(obj, id_list) ==
    {a \in Atoms : a.model = obj /\ a.index \in id_list}

\* a segment selection of an earlier run may exist before the command
InitPromix ==
    /\ cmdName = "idle"
    /\ pc = "idle"
    /\ arg = [none |-> TRUE]
    /\ loc = [none |-> TRUE]
    /\ exc = NoExc
    /\ \E old \in SUBSET {<<SegmentPrefix("m1"), MaxK + 1>>} :
          /\ names = {AlnObjectName} \cup old
          /\ sels = [n \in old |-> {}]
    /\ files = {}
    /\ mm = NoMM
    /\ deleteLog = <<>>
    /\ effects = {}
    /\ coords = DefaultCoords

\* an async_ that defaults to quiet
ResolveAsync_Quiet(async_, quiet) == IF async_ < 0 THEN quiet ELSE async_ # 0

\* if async_ < 0: async_ = not quiet; the truth value tested by "if not async_"
ResolveAsync(async_, quiet) == IF async_ < 0 THEN ~quiet ELSE async_ # 0

\* delete(prefix + '_*')
DeletePrefix(store, prefix) ==
    [n \in {m \in DOMAIN store : m[1] # prefix} |-> store[n]]

\* _promix in segment mode: the atoms of id_list_k for k + 1 in 1..K
\* _promix in segment mode: select_list of id_list_k for k + 1 in 1..K
PromixJob(obj, selection, K, membership) ==
    [k \in 1..K |->
        SelectList(obj, {a.index : a \in {b \in selection : membership[b] = k - 1}})]

\* the named selections after _promix: prefix_* deleted, prefix_1..K selected
PromixSels(store, prefix, obj, selection, K, membership) ==
    LET kept == DeletePrefix(store, prefix)
        segs == PromixJob(obj, selection, K, membership)
    IN [n \in DOMAIN kept \cup {<<prefix, k>> : k \in 1..K} |->
          IF n[1] = prefix THEN segs[n[2]] ELSE kept[n]]

\* the host names after _promix
PromixNames(nms, prefix, K) ==
    {n \in nms : n[1] # prefix} \cup {<<prefix, k>> : k \in 1..K}

\* promix up to and including the MatchMaker
PromixStart ==
    /\ cmdName = "idle"
    /\ cmdName' = "promix"
    /\ \E q \in MatchInputs, quiet \in BOOLEAN, async_ \in {-1, 0, 1} :
         \E obj \in ObjectNames(q[1]) :
          LET o == MatchMakerInit(q[1], q[2], q[3], TRUE, q[4], names)
          IN /\ arg' = [quiet |-> quiet, async_ |-> async_]
             /\ mm' = o
             /\ names' = o.names
             /\ exc' = o.exc
             /\ loc' = [async_ |-> ResolveAsync(async_, quiet), obj |-> obj,
                        selection |-> o.mobile, thread |-> "none",
                        jobThread |-> "none", K |-> 0, membership |-> <<>>]
             /\ pc' = IF o.exc = NoExc THEN "dispatch" ELSE "return"
    /\ effects' = effects \cup {"colored"}
    /\ UNCHANGED <<sels, coords, files, deleteLog>>

\* intra_promix up to and including the test of n_models
IntraPromixStart ==
    /\ cmdName = "idle"
    /\ cmdName' = "intra_promix"
    /\ \E selection \in Selections, quiet \in BOOLEAN,
          async_ \in {-1, 0, 1}, n_models \in 1..MaxStates :
         \E obj \in ObjectNames(selection) :
          /\ arg' = [quiet |-> quiet, async_ |-> async_]
          /\ loc' = [async_ |-> ResolveAsync(async_, quiet), obj |-> obj,
                     selection |-> selection, thread |-> "none",
                     jobThread |-> "none", K |-> 0, membership |-> <<>>]
          /\ exc' = IF n_models < 2 THEN CmdException("object needs multiple states")
                    ELSE exc
          /\ pc' = IF n_models < 2 THEN "return" ELSE "dispatch"
    /\ UNCHANGED <<sels, coords, names, files, mm, deleteLog, effects>>

\* if not async_: _promix(**locals())
PromixCall ==
    /\ cmdName \in {"promix", "intra_promix"} /\ pc = "dispatch"
    /\ ~loc.async_
    /\ \E K \in 1..MaxK :
         \E membership \in [loc.selection -> 0..(K - 1)] :
          /\ sels' = PromixSels(sels, SegmentPrefix(loc.obj), loc.obj,
                                  loc.selection, K, membership)
          /\ names' = PromixNames(names, SegmentPrefix(loc.obj), K)
          /\ loc' = [loc EXCEPT !.jobThread = "caller", !.K = K,
                                !.membership = membership]
    /\ pc' = "return"
    /\ UNCHANGED <<coords, cmdName, arg, exc, files, mm, deleteLog, effects>>

\* else: t = threading.Thread(target=_promix, ...); t.setDaemon(1); t.start()
PromixThreadStart ==
    /\ cmdName \in {"promix", "intra_promix"} /\ pc = "dispatch"
    /\ loc.async_
    /\ loc' = [loc EXCEPT !.thread = "started"]
    /\ pc' = "return"
    /\ UNCHANGED <<sels, coords, cmdName, arg, exc, names, files, mm, deleteLog, effects>>

\* _promix running in the daemon thread; the thread drops the last reference
\* to the MatchMaker when the command has returned before
PromixThreadRun ==
    /\ cmdName \in {"promix", "intra_promix"} /\ loc.thread = "started"
    /\ \E K \in 1..MaxK :
         \E membership \in [loc.selection -> 0..(K - 1)] :
          /\ sels' = PromixSels(sels, SegmentPrefix(loc.obj), loc.obj,
                                  loc.selection, K, membership)
          /\ names' = PromixNames(names, SegmentPrefix(loc.obj), K)
                         \ (IF pc = "returned" THEN SeqToSet(Cleanup(mm)) ELSE {})
          /\ loc' = [loc EXCEPT !.jobThread = "daemon", !.K = K,
                                !.membership = membership,
                                !.thread = "finished"]
    /\ deleteLog' = IF pc = "returned" THEN deleteLog \o Cleanup(mm) ELSE deleteLog
    /\ UNCHANGED <<coords, cmdName, pc, arg, exc, files, mm, effects>>

\* the command returns or raises; the MatchMaker is finalized unless the
\* thread still holds it
PromixReturn ==
    /\ cmdName \in {"promix", "intra_promix"} /\ pc = "return"
    /\ IF loc.thread = "started"
       THEN UNCHANGED <<names, deleteLog>>
       ELSE /\ deleteLog' = deleteLog \o Cleanup(mm)
            /\ names' = names \ SeqToSet(Cleanup(mm))
    /\ pc' = "returned"
    /\ UNCHANGED <<sels, coords, cmdName, arg, loc, exc, files, mm, effects>>

NextPromix ==
    \/ PromixStart
    \/ IntraPromixStart
    \/ PromixCall
    \/ PromixThreadStart
    \/ PromixThreadRun
    \/ PromixReturn

SpecPromix == InitPromix /\ [][NextPromix]_vars

(***************************************************************************)
(* Properties                                                              *)
(***************************************************************************)
Count(seq, x) == Cardinality({i \in 1..Len(seq) : seq[i] = x})

\* C1: after a MatchMaker has been constructed with any accepted match
\* method, its mobile and target selections hold the same number of atoms.
C1_EqualAtomCount ==
    (cmdName = "mm" /\ pc = "constructed")
        => Cardinality(mm.mobile) = Cardinality(mm.target)

\* C2: every temporary name of a MatchMaker with autodelete is handed to
\* cmd.delete at most once, and exactly once (and is gone) once the
\* with-block has been left or the object has been finalized.
C2_TemporaryDeletedOnce ==
    (cmdName = "mm" /\ arg.autodelete)
        => \A n \in SeqToSet(mm.temporary) :
              /\ Count(deleteLog, n) <= 1
              /\ pc \in {"exited", "finalized"}
                    => Count(deleteLog, n) = 1 /\ n \notin names

\* the output has a rotation matrix block: the block line, one header row
\* and three numeric rows
HasMatrixBlock(lines) ==
    \E i \in 1..Len(lines) :
        /\ i + 4 <= Len(lines)
        /\ lines[i] = "rot"
        /\ \A k \in 2..4 : lines[i + k] = "num"

\* the output has an alignment block: the '(":" denotes' line and three lines
HasAlnBlock(lines) ==
    \E i \in 1..Len(lines) : lines[i] = "aln" /\ i + 3 <= Len(lines)

\* C5: when the TMalign output is malformed (no rotation matrix block or no
\* alignment block), tmalign ends with a CmdException and has transformed
\* no object.
C5_MalformedOutputRaises ==
    (/\ cmdName = "tmalign" /\ pc = "done" /\ loc.ran
     /\ ~(HasMatrixBlock(loc.lines) /\ HasAlnBlock(loc.lines)))
        => exc.type = "CmdException" /\ "transformed" \notin effects

\* C6: when tmalign has returned or raised, none of the temporary files it
\* created is left on disk.
C6_NoTempFileLeft ==
    (cmdName = "tmalign" /\ pc = "done") => files = {}

\* C8: once dyndom has created its temporary directory and has left the
\* try block, the directory is gone when preserve is 0 and is still there
\* when preserve is non-zero.
C8_DyndomTempdir ==
    (cmdName = "dyndom" /\ loc.dirCreated /\ pc \in {"align", "exit", "done"})
        => (DyndomDir \in files <=> arg.preserve)

\* dyndom left through an exception with preserve=0 and the directory is gone
C8_Witness ==
    /\ cmdName = "dyndom" /\ pc = "done" /\ loc.dirCreated
    /\ ~arg.preserve /\ exc.type = "CmdException" /\ loc.status # 0
    /\ DyndomDir \notin files

\* C3: when the executable cannot be started, tmalign, dyndom, theseus and
\* intra_theseus fail with a CmdException 'Cannot execute' and with no
\* other exception.
C3_CannotExecute ==
    (cmdName \in {"tmalign", "dyndom", "theseus", "intra_theseus"}
        /\ loc.execFailed)
        => exc = CmdException("Cannot execute")

\* theseus has raised after the operating system refused to start the executable
C3_Witness ==
    /\ cmdName = "theseus" /\ pc = "done" /\ loc.execFailed
    /\ exc = CmdException("Cannot execute")

\* C7: once theseus or intra_theseus (preserve=0) or prosmart has returned
\* or raised after creating its temporary directory, the directory no
\* longer exists.
C7_TempdirRemoved ==
    (/\ pc = "done"
     /\ \/ cmdName \in {"theseus", "intra_theseus"} /\ ~arg.preserve
        \/ cmdName = "prosmart")
        => files = {}

\* C4: when the matched mobile and target selections differ in their number
\* of atoms, local_rms raises the CmdException 'number of atoms differ'
\* before an RMS is computed or a B-factor is altered.
C4_AtomCountChecked ==
    (/\ cmdName = "local_rms" /\ loc.checked
     /\ Cardinality(mm.mobile) # Cardinality(mm.target))
        => /\ exc = CmdException("number of atoms differ, please check match method")
           /\ ~loc.rmsComputed
           /\ "b_altered" \notin effects

\* C9: when extra_fit has returned or raised, the temporary named selection
\* it created has been deleted.
C9_TemporarySelectionDeleted ==
    (cmdName = "extra_fit" /\ pc = "done") => loc.sele_name \notin names

\* C10: alignwithanymethod makes, for each listed method that is a
\* registered command, one new copy of the mobile object under a name that
\* was unused until then and issues the command with that copy as mobile,
\* never with the original object; a listed method that is not registered
\* gets no copy and no command.
C10_CopyPerRegisteredMethod ==
    cmdName = "alignwithanymethod" =>
        /\ \A i \in 1..Len(arg.methods) :
              arg.methods[i] \notin Keyword => loc.workers[i].pc = "idle"
        /\ \A k \in 1..Len(loc.created) :
              /\ loc.created[k].unused
              /\ loc.created[k].name # MobileObj
              /\ \A j \in 1..Len(loc.created) :
                    j # k => loc.created[j].worker # loc.created[k].worker
        /\ \A k \in 1..Len(loc.cmds) :
              /\ loc.cmds[k].method \in Keyword
              /\ loc.cmds[k].mobile # MobileObj
              /\ loc.cmds[k].mobile = loc.workers[loc.cmds[k].worker].newmobile
              /\ \E j \in 1..Len(loc.created) :
                    /\ loc.created[j].worker = loc.cmds[k].worker
                    /\ loc.created[j].name = loc.cmds[k].mobile
        /\ (loc.next > Len(arg.methods) /\ NoneRunning(loc.workers))
              => LET reg == {i \in 1..Len(arg.methods) : arg.methods[i] \in Keyword}
                 IN /\ Len(loc.created) = Cardinality(reg)
                    /\ Len(loc.cmds) = Cardinality(reg)
                    /\ Cardinality(names \ loc.names0) = Cardinality(reg)

\* C11: when intra_theseus has finished with a reference state in
\* 1..number of fitted states, every atom of that state has the coordinates
\* it had before the command
C11_ReferenceStateUnmoved ==
    (cmdName = "intra_theseus" /\ pc = "done" /\ exc = NoExc
        /\ 0 < arg.state /\ arg.state <= loc.ntransf)
    => coords[arg.state] = loc.before[arg.state]

\* intra_theseus has fitted two states with a rotation and a translation in
\* the reference state, and another state has moved
C11_Witness ==
    /\ cmdName = "intra_theseus" /\ pc = "done" /\ exc = NoExc
    /\ loc.ntransf = 2 /\ arg.state = 1
    /\ loc.rotations[1] = <<0, -1, 0, 1, 0, 0, 0, 0, 1>>
    /\ loc.translations[1] # <<0, 0, 0>>
    /\ coords[2] # loc.before[2]
    /\ coords[1] = loc.before[1]

\* C12: when intra_center has finished, every atom of the objects of the
\* selection has moved in every state s by the centroid of the selection in
\* the reference state before the command minus the centroid of the selection
\* in state s before the command, the other atoms have not moved, the
\* selection has the same centroid in every state and the reference state has
\* not moved
C12_CenteredByTranslation ==
    (cmdName = "intra_center" /\ pc = "done")
    => /\ \A s \in States : \A a \in AtomIds :
            coords[s][a] =
                IF ObjectOf(a) \in {ObjectOf(x) : x \in arg.selection}
                THEN VAdd(loc.before[s][a],
                          VSub(Centroid(loc.before[arg.state], arg.selection),
                               Centroid(loc.before[s], arg.selection)))
                ELSE loc.before[s][a]
       /\ \A s \in States :
            Centroid(coords[s], arg.selection)
                = Centroid(loc.before[arg.state], arg.selection)
       /\ coords[arg.state] = loc.before[arg.state]

\* intra_center has finished on a selection of two atoms in two objects
\* whose centroid differed between the reference state and another state
C12_Witness ==
    /\ cmdName = "intra_center" /\ pc = "done"
    /\ arg.selection = {1, 3}
    /\ \E s \in States :
          /\ Centroid(loc.before[s], arg.selection)
                # Centroid(loc.before[arg.state], arg.selection)
          /\ coords[s] # loc.before[s]

\* the pattern given to select_pepseq holds residue letters only
LettersOnly(pattern) == \A k \in 1..Len(pattern) : pattern[k] # "."

\* C13: the letter list and the index list of select_pepseq have equal
\* length; for a pattern of residue letters only, every match covers
\* consecutive guide atoms whose residue names are known and spell the
\* pattern, each but the first within cutoff of its predecessor, and the
\* selection holds exactly the guide atoms of the matches
C13_NoGapSpanned ==
    (cmdName = "select_pepseq")
    => /\ Len(loc.seq_list) = Len(loc.idx_list)
       /\ (pc = "done" /\ LettersOnly(arg.pattern))
          => /\ \A m \in 1..Len(loc.matches) :
                  LET start == loc.matches[m][1]
                      stop == loc.matches[m][2]
                  IN /\ stop - start = Len(arg.pattern)
                     /\ \A j \in (start + 1)..stop :
                          /\ loc.idx_list[j] # 0
                          /\ OneLetter(arg.atoms[loc.idx_list[j]].resn)
                                = Upper(arg.pattern[j - start])
                          /\ OneLetter(arg.atoms[loc.idx_list[j]].resn) # "#"
                     /\ \A j \in (start + 2)..stop :
                          /\ loc.idx_list[j] = loc.idx_list[j - 1] + 1
                          /\ Distance(arg.atoms[loc.idx_list[j]].x,
                                      arg.atoms[loc.idx_list[j - 1]].x) <= arg.cutoff
             /\ Cardinality(sels[arg.name]) = Len(loc.matches) * Len(arg.pattern)

\* select_pepseq has matched a pattern of two residue letters in a selection
\* whose first two residues spell the same pattern across a gap
C13_Witness ==
    /\ cmdName = "select_pepseq" /\ pc = "done"
    /\ arg.pattern = <<"A", "A">>
    /\ Len(loc.matches) = 1
    /\ Len(arg.atoms) = 3
    /\ \A i \in 1..3 : arg.atoms[i].resn = "ALA"
    /\ Distance(arg.atoms[2].x, arg.atoms[1].x) > arg.cutoff
    /\ sels[arg.name] = {2, 3}

\* the residue numbers a written range stands for
RangeFrom(w) == w[1]

RangeTo(w) == w[Len(w)]

\* C14: for each (model, segi, chain) group of the macro of collapse_resi the
\* ranges are ascending, disjoint and not adjacent, their union is the set
\* of residue numbers of the atoms of the group, a range of one residue is
\* written as one number, and every group of the selection is written once
C14_MaximalRuns ==
    (cmdName = "collapse_resi" /\ pc = "done")
    => /\ {loc.r_all[k].key : k \in 1..Len(loc.r_all)}
            = {a.chain : a \in arg.selection}
       /\ Len(loc.r_all) = Cardinality({a.chain : a \in arg.selection})
       /\ \A k \in 1..Len(loc.r_all) :
            LET resi == loc.r_all[k].resi
                group == {a.resv : a \in {b \in arg.selection :
                                            b.chain = loc.r_all[k].key}}
            IN /\ \A j \in 1..Len(resi) :
                    /\ RangeFrom(resi[j]) <= RangeTo(resi[j])
                    /\ Len(resi[j]) = IF RangeFrom(resi[j]) = RangeTo(resi[j])
                                      THEN 1 ELSE 2
               /\ \A j \in 1..(Len(resi) - 1) :
                    RangeTo(resi[j]) + 1 < RangeFrom(resi[j + 1])
               /\ UNION {RangeFrom(resi[j])..RangeTo(resi[j]) : j \in 1..Len(resi)}
                    = group

\* collapse_resi has written a group with a run of several residues, a gap
\* and a run of one residue
C14_Witness ==
    /\ cmdName = "collapse_resi" /\ pc = "done"
    /\ \E k \in 1..Len(loc.r_all) :
          loc.r_all[k].resi = << <<-1, 1>>, <<3>> >>
    /\ Len(loc.r_all) = 2

\* the atoms of s1 that operator matches in s2; for align the atoms of the
\* alignment object the host has built for this pair
MatchedIn(s1, s2, operator, alnatoms) ==
    IF operator = "align" THEN s1 \cap alnatoms
    ELSE IF operator = "in"
    THEN {a \in s1 : \E b \in s2 : b.chain = a.chain /\ b.resi = a.resi}
    ELSE {a \in s1 : \E b \in s2 : b.resi = a.resi}

\* the atoms of s1 not matched in s2 together with those of s2 not matched in s1
SymmetricDifference(s1, s2, operator, aln12, aln21) ==
    (s1 \ MatchedIn(s1, s2, operator, aln12))
        \cup (s2 \ MatchedIn(s2, s1, operator, aln21))

\* C15: when symdiff has returned, its named selection holds exactly the
\* atoms of sele1 not matched in sele2 and the atoms of sele2 not matched in
\* sele1, which is also what the command leaves for the exchanged arguments,
\* whatever byres and quiet are, and the temporary selection is gone
C15_SymmetricDifference ==
    (cmdName = "symdiff" /\ pc = "done" /\ exc = NoExc)
    => /\ arg.name \in DOMAIN sels
       /\ sels[arg.name] = SymmetricDifference(arg.sele1, arg.sele2, arg.operator,
                                               loc.aln1, loc.aln2)
       /\ sels[arg.name] = SymmetricDifference(arg.sele2, arg.sele1, arg.operator,
                                               loc.aln2, loc.aln1)
       /\ loc.tmpname \notin DOMAIN sels

\* symdiff has returned over an existing selection with atoms of both
\* arguments in the result, with byres and quiet set
C15_Witness ==
    /\ cmdName = "symdiff" /\ pc = "done" /\ exc = NoExc
    /\ arg.name = SeleName /\ arg.byres /\ arg.quiet
    /\ arg.operator = "in"
    /\ sels[arg.name] \cap (arg.sele1 \ arg.sele2) # {}
    /\ sels[arg.name] \cap (arg.sele2 \ arg.sele1) # {}

\* the atoms between the first and the last atom of sel in every object
BetweenFirstAndLast(sel) ==
    {a \in RangeAtoms :
        \E f \in sel, l \in sel :
            /\ f.model = a.model /\ l.model = a.model
            /\ f.index <= a.index /\ a.index <= l.index}

\* the atoms the named selection of select_range held before the command
HeldBefore == IF arg.name \in DOMAIN loc.before THEN loc.before[arg.name] ELSE {}

\* the named selection of select_range after the command
HeldAfter == IF arg.name \in DOMAIN sels THEN sels[arg.name] ELSE {}

\* C16 as stated: after select_range the named selection holds every atom
\* between the first and the last selected atom of every object, and no
\* other atom unless merge=1 and the atom was in it before
C16_RangeSelected ==
    (cmdName = "select_range" /\ pc = "done")
    => /\ BetweenFirstAndLast(arg.selection) \subseteq HeldAfter
       /\ HeldAfter \ BetweenFirstAndLast(arg.selection)
            \subseteq (IF arg.merge THEN HeldBefore ELSE {})

\* C16 amended: after select_range the named selection holds every atom
\* between the first and the last selected atom of every object, and no
\* other atom unless the atom was in it before and either merge=1 or the
\* given selection holds no atom, in which case nothing is selected and the
\* named selection is left as it was
C16_RangeSelectedOrUntouched ==
    (cmdName = "select_range" /\ pc = "done")
    => /\ BetweenFirstAndLast(arg.selection) \subseteq HeldAfter
       /\ HeldAfter \ BetweenFirstAndLast(arg.selection)
            \subseteq (IF arg.merge \/ arg.selection = {} THEN HeldBefore ELSE {})
       /\ arg.selection = {} => HeldAfter = HeldBefore
       /\ loc.tmpsele \notin DOMAIN sels

\* select_range with merge=0 has replaced a named selection by the ranges of
\* two objects, dropping an atom it held before
C16_Witness ==
    /\ cmdName = "select_range" /\ pc = "done"
    /\ ~arg.merge /\ arg.given
    /\ {a.model : a \in arg.selection} = {"m1", "m2"}
    /\ HeldAfter # arg.selection
    /\ HeldBefore \ HeldAfter # {}

\* C17: every domain selection created by select_domains holds at least
\* minsize residues of its chain
C17_DomainAtLeastMinsize ==
    (cmdName = "select_domains")
    => \A name \in loc.created : Cardinality(sels[name]) >= arg.minsize

\* C18: inside the with-block of select_temporary the returned name is a
\* named selection holding the given atoms whose name was not in use before
\* entry, and after the block has been left, normally or by an exception,
\* that named selection does not exist
C18_TemporaryLifetime ==
    (cmdName = "select_temporary")
    => /\ pc \in {"inside", "leaving"}
            => /\ loc.name \in names /\ loc.name \in DOMAIN sels
               /\ sels[loc.name] = arg.sele
               /\ loc.name \notin loc.before
       /\ pc = "exited"
            => /\ loc.name \notin names /\ loc.name \notin DOMAIN sels
               /\ names = loc.before

\* a with-block of select_temporary that raised has been left, with another
\* _sele selection in use before entry
C18_Witness ==
    /\ cmdName = "select_temporary" /\ pc = "exited"
    /\ exc = PyError("Exception")
    /\ loc.name = <<"_sele", 2>>
    /\ arg.sele # {}

\* C19: promix and intra_promix run the mixture job in the calling thread
\* when async resolves to 0 and in a daemon thread otherwise; a negative async
\* resolves to not quiet, so with quiet=1 the command has returned only
\* after the job has made its selections
C19_AsyncResolution ==
    (cmdName \in {"promix", "intra_promix"})
    => /\ loc.jobThread = "caller" => ~loc.async_
       /\ loc.jobThread = "daemon" => loc.async_
       /\ loc.thread # "none" => loc.async_
       /\ arg.async_ < 0 => (loc.async_ <=> ~arg.quiet)
       /\ arg.async_ = 0 => ~loc.async_
       /\ arg.async_ > 0 => loc.async_
       /\ (pc = "returned" /\ exc = NoExc /\ ~loc.async_)
            => /\ loc.jobThread = "caller"
               /\ \A k \in 1..loc.K : <<SegmentPrefix(loc.obj), k>> \in DOMAIN sels
               /\ loc.K >= 1
       /\ (pc = "returned" /\ exc = NoExc /\ arg.async_ < 0 /\ arg.quiet)
            => loc.jobThread = "caller"

\* with async not given and quiet=0 the command has returned while the job
\* in the daemon thread has not yet run
C19_Witness ==
    /\ cmdName \in {"promix", "intra_promix"}
    /\ pc = "returned" /\ exc = NoExc
    /\ arg.async_ < 0 /\ ~arg.quiet
    /\ loc.thread = "started" /\ loc.jobThread = "none"

\* the positions in the matched guide atoms with a residue number in lo..hi
InWindow(atoms, lo, hi) ==
    {i \in 1..Len(atoms) : lo <= atoms[i].resi /\ atoms[i].resi <= hi}

\* residue number resv has matched guide atoms on both sides of its window
\* and at least window // 4 + 1 atoms from the first to the last of them
WindowSatisfied(atoms, resv, window) ==
    LET left == InWindow(atoms, resv - window \div 2, resv)
        right == InWindow(atoms, resv, resv + window \div 2)
    IN /\ left # {} /\ right # {}
       /\ \E f \in left, t \in right :
             /\ \A i \in left : f <= i
             /\ \A i \in right : t >= i
             /\ t - f + 1 >= window \div 4 + 1

\* C20: for matched residue numbers that increase strictly and window >= 0,
\* every value of local_rms is computed from the matched guide atoms from
\* the first one with residue number in [resv - window//2, resv] to the last
\* one with residue number in [resv, resv + window//2], at least
\* window//4 + 1 atoms, and a residue number without such a window has no
\* value and gets the B-factor -1.0 when load_b is set
C20_WindowAroundResidue ==
    (cmdName = "local_rms" /\ exc = NoExc /\ pc \in {"load_b", "exit"}
        /\ mm.mobile # {} /\ arg.window >= 0
        /\ \A a, b \in mm.mobile : AtomRank(a) < AtomRank(b) => a.resi < b.resi)
    => LET atoms == AtomList(mm.mobile)
       IN /\ loc.resv2b = {f[1] : f \in loc.fits}
          /\ \A f \in loc.fits :
                LET left == InWindow(atoms, f[1] - arg.window \div 2, f[1])
                    right == InWindow(atoms, f[1], f[1] + arg.window \div 2)
                IN /\ f[2] \in left /\ \A i \in left : f[2] <= i
                   /\ f[3] \in right /\ \A i \in right : f[3] >= i
                   /\ f[3] - f[2] + 1 >= arg.window \div 4 + 1
          /\ \A r \in ResvDomain :
                ~WindowSatisfied(atoms, r, arg.window)
                   => /\ r \notin loc.resv2b
                      /\ (pc = "exit" /\ arg.load_b) => loc.b[r] = "-1.0"

\* local_rms has given a value to a residue whose window starts at the
\* matched residue before it, and none to a matched residue whose window
\* holds too few matched residues
C20_Witness ==
    /\ cmdName = "local_rms" /\ exc = NoExc /\ pc = "exit"
    /\ arg.window = 4 /\ arg.load_b
    /\ {a.resi : a \in mm.mobile} = {1, 4, 5}
    /\ <<5, 2, 3>> \in loc.fits
    /\ loc.b[5] = "rms"
    /\ loc.b[1] = "-1.0"

\* the columns of the raw alignment with exactly one atom of the mobile and
\* exactly one atom of the target selection
UngappedColumns(aln, mobile, target) ==
    {i \in 1..Len(aln) : /\ Cardinality(mobile \cap aln[i]) = 1
                         /\ Cardinality(target \cap aln[i]) = 1}

SegmentsOfMembership ==
    LET prefix == SegmentPrefix(loc.obj)
        segments == {<<prefix, k>> : k \in 1..loc.K}
    IN /\ {n \in names : n[1] = prefix} = segments
       /\ {n \in DOMAIN sels : n[1] = prefix} = segments
       /\ \A a \in loc.selection : \A k \in 1..loc.K :
             a \in sels[<<prefix, k>>] <=> k = loc.membership[a] + 1

\* C22: after _promix has completed in segment mode the names prefix_* are
\* exactly prefix_1..prefix_K and every atom of the analysed selection is in
\* exactly the selection of its membership index plus one
C22_SegmentsPartition ==
    (cmdName \in {"promix", "intra_promix"} /\ loc.jobThread # "none")
    => SegmentsOfMembership

\* C22, for an analysed selection that lies in the one object whose name
\* _promix passes to select_list
C22_SegmentsPartitionOneObject ==
    (cmdName \in {"promix", "intra_promix"} /\ loc.jobThread # "none"
        /\ \A a \in loc.selection : a.model = loc.obj)
    => SegmentsOfMembership

\* _promix has replaced a longer list of segments of an earlier run by two
\* segments that both hold an atom of the analysed object
C22_Witness ==
    /\ cmdName \in {"promix", "intra_promix"} /\ loc.jobThread # "none"
    /\ loc.K = 2 /\ loc.obj = "m1"
    /\ Cardinality(loc.selection) = 2
    /\ \A a \in loc.selection : a.model = "m1"
    /\ \A k \in 1..2 : sels[<<SegmentPrefix("m1"), k>>] # {}
    /\ <<SegmentPrefix("m1"), MaxK + 1>> \notin names
    /\ deleteLog = <<>> /\ pc = "returned" /\ loc.thread = "none"

\* dyndom has left the atom colours, the named selections domain_* and
\* bending and the object positions alone
DyndomUntouched ==
    /\ effects \cap {"recoloured", "aligned"} = {}
    /\ \A n \in names : n[1] \notin {"domain_", "bending"}

\* C23: dyndom raises a CmdException when the matched mobile or target
\* selection does not span exactly one chain, without having started an
\* external process, and when the DynDom process ends with a non-zero exit
\* status; in these cases nothing has been recoloured, no domain_* or bending
\* selection has been created and no object has been aligned
C23_DyndomFailures ==
    (cmdName = "dyndom" /\ mm.exc = NoExc)
    => /\ (Cardinality(GetChains(mm.mobile)) # 1
             \/ Cardinality(GetChains(mm.target)) # 1)
          => /\ exc.type = "CmdException"
             /\ exc.msg \in {"mobile selection must be single chain",
                             "target selection must be single chain"}
             /\ ~loc.started /\ ~loc.execFailed /\ ~loc.dirCreated
             /\ DyndomUntouched
       /\ (loc.started /\ loc.status # 0)
          => /\ exc = CmdException("failed with status")
             /\ pc \in {"finally", "exit", "done"}
             /\ DyndomUntouched

\* dyndom has returned after the DynDom process of a single-chain match
\* ended with a non-zero exit status
C23_Witness ==
    /\ cmdName = "dyndom" /\ pc = "done"
    /\ Cardinality(GetChains(mm.mobile)) = 1
    /\ Cardinality(GetChains(mm.target)) = 1
    /\ loc.started /\ loc.status # 0 /\ loc.finallyRan
    /\ exc.type = "CmdException"

\* C24: in async mode of alignwithanymethod the copies created by the worker
\* threads have pairwise distinct object names, so no create of one worker
\* goes into the copy of another worker, under every interleaving of the
\* get_unused_name and create steps
C24_DistinctCopyNames ==
    (cmdName = "alignwithanymethod" /\ arg.async)
    => \A j, k \in 1..Len(loc.created) :
          j # k => loc.created[j].name # loc.created[k].name

\* the interval of consecutive residue numbers lo..hi is a maximal run of
\* residues whose C-alpha has the ss type
MaximalRun(residues, ss, lo, hi) ==
    /\ lo <= hi
    /\ \A i \in lo..hi : i \in ResvSet(residues, ss)
    /\ (lo - 1) \notin ResvSet(residues, ss)
    /\ (hi + 1) \notin ResvSet(residues, ss)

\* the intervals collected so far: pairwise disjoint maximal runs per key,
\* and one interval for every processed residue of the key
SspickIntervals ==
    /\ \A key \in DOMAIN loc.elements :
          LET element == loc.elements[key]
          IN /\ \A k \in 1..Len(element) :
                   MaximalRun(arg.residues, key, element[k][1], element[k][2])
             /\ \A j, k \in 1..Len(element) :
                   j # k => (element[j][2] < element[k][1]
                             \/ element[k][2] < element[j][1])
    /\ \A q \in loc.seen :
          LET key == q[1]
              resv == q[2]
          IN /\ key \in DOMAIN loc.elements
             /\ Cardinality({k \in 1..Len(loc.elements[key]) :
                               /\ loc.elements[key][k][1] <= resv
                               /\ resv <= loc.elements[key][k][2]}) = 1

\* the intervals of a key when the loop is over, whatever the order was: the
\* maximal runs that hold a queried residue of the key
SspickOrderIndependent ==
    (pc = "done" \/ loc.qkeys = {})
    => \A key \in {"H", "S"} :
          LET queried == {q[2] : q \in {r \in QKeys(arg.residues, arg.selection) :
                                           r[1] = key}}
              got == IF key \in DOMAIN loc.elements
                     THEN SeqToSet(loc.elements[key]) ELSE {}
          IN got = {<<lo, hi>> \in (1..MaxSsResv) \X (1..MaxSsResv) :
                      /\ MaximalRun(arg.residues, key, lo, hi)
                      /\ \E i \in queried : lo <= i /\ i <= hi}

\* C25: in select_sspick the intervals collected for a key are pairwise
\* disjoint, each is a maximal run of consecutive residue numbers whose
\* C-alpha has the ss type of the key, and every queried residue lies in
\* exactly one interval of its key, in whatever order the residues are
\* processed
C25_DisjointMaximalRuns ==
    cmdName = "select_sspick" => (SspickIntervals /\ SspickOrderIndependent)

\* select_sspick has finished for a chain with a strand between two helices
\* and all residues queried: the helix key has two intervals, the later
\* helix collected first, and one interval holds two queried residues
C25_Witness ==
    /\ cmdName = "select_sspick" /\ pc = "done"
    /\ \A i \in DOMAIN arg.residues : arg.residues[i].present
    /\ arg.selection = DOMAIN arg.residues
    /\ "H" \in DOMAIN loc.elements /\ "S" \in DOMAIN loc.elements
    /\ Len(loc.elements["H"]) = 2
    /\ loc.elements["H"][1][1] > loc.elements["H"][2][2]
    /\ \E k \in 1..2 : loc.elements["H"][k][1] < loc.elements["H"][k][2]
    /\ "H" \in DOMAIN loc.elements /\ "S" \in DOMAIN loc.elements
    /\ Len(loc.elements["H"]) = 2
    /\ loc.elements["H"][1][1] > loc.elements["H"][2][2]
    /\ SeleName \in DOMAIN sels

\* a MatchMaker with three temporaries was used in a with-block and then finalized
C2_Witness ==
    /\ cmdName = "mm" /\ pc = "finalized" /\ loc.entered
    /\ arg.autodelete /\ Len(mm.temporary) = 3
    /\ \A n \in SeqToSet(mm.temporary) : Count(deleteLog, n) = 1

====
